---- MODULE Spec2Model ----
(***************************************************************************)
(* The WebGPU SAM2 segmentation provider and its worker.                   *)
(*                                                                         *)
(* Main thread: WebGPUProvider (webgpu-provider.ts) with its lifecycle     *)
(* state, the worker it holds, the insertion-ordered map of pending worker *)
(* requests and the asynchronous calls (initialize, segmentSingleView,     *)
(* preEncodeImage, dispose) that are suspended at an await.                *)
(* Worker side: self.onmessage of sam2-worker.ts, an async handler: while  *)
(* one handler is suspended on engine work the worker's event loop         *)
(* dispatches the next message.                                            *)
(*                                                                         *)
(* Scheduling: a continuation released by abort() is a microtask; it runs  *)
(* before any macrotask (a worker message, the end of a model load) but    *)
(* after the synchronous code that called abort(), which may be further    *)
(* API calls.  A continuation released by a worker message runs in the     *)
(* same step as the message handler.  The worker script is taken to load:  *)
(* worker.onerror is not modelled.                                         *)
(***************************************************************************)
EXTENDS Integers, Sequences, FiniteSets

\* Number of API calls that suspend at an await, over the whole run.
MaxCalls == 2

Calls == 1..MaxCalls

\* Number of image ids a provider hands out.
MaxImages == 2

ImageIds == 1..MaxImages

\* Stand-in for the 256 * 256 values of one mask plane.
MaskSize == 2

\* The decoder's planes are taken one value shorter, equal or one longer than that.
PlaneSizes == (MaskSize - 1)..(MaskSize + 1)

\* Encoder runs of one engine, over the whole run.
MaxRuns == MaxCalls

\* sam.segment requests handled by the service, over the whole run.
MaxSegments == 3

\* The largest maxBufferSize of an adapter, in units of 256 MiB.
MaxBuffer == 5

\* The most events (sam.segment, sam.capturePreview, sam.initializeProvider) the
\* service handles.
MaxOps == 2

\* The most chunks the body of a download is read in.
MaxChunks == 2

\* How far, in MiB, a model's actual size is from its expectedSize, either way.
SizeSlack == 2

\* Candidates (mask planes) per decoder run in the session specification.
NumCandidates == 2

\* Requests ('encode', 'segment') the provider sends to its worker, over the whole run.
MaxRequests == 3

\* A previous mask that is undefined: no logits.
Undefined == <<>>

\* No 'segment' request awaited.
NoMessage == [imageId |-> 0, previousMask |-> Undefined]

NoFeeds == [mask_input |-> Undefined, has_mask_input |-> 0]

\* "The ONNX model has multimask_output=True baked in, so it always returns 3 masks":
\* the decoder's mask tensor holds up to that many planes.
MaxPlanes == 3

\* initialize() creates one worker each time it gets as far as createWorker.
Workers == 1..(MaxCalls + 1)

VARIABLES
    state,            \* WebGPUProvider.state
    worker,           \* WebGPUProvider.worker: a worker id, 0 for null
    currentProvider,  \* WebGPUProvider.currentProvider
    pendingRequests,  \* WebGPUProvider.pendingRequests, in insertion order
    requestCounter,   \* WebGPUProvider.requestCounter
    abortController,  \* WebGPUProvider.abortController: the call that made it, 0 for null
    calls,            \* the suspended async calls
    nCalls,           \* calls started so far
    wstatus,          \* per worker: none | alive | terminated
    inbox,            \* per worker: messages posted to it, not yet dispatched
    active,           \* per worker: handlers started and suspended, in start order
    sam2,             \* per worker: the module variable sam2: null | created | ready
    encoded,          \* per worker: embeddings of the session's image are cached
    nWorkers,         \* workers created so far
    rejected,         \* history: the ids of the requests abort() has rejected
    sinceDispose,     \* history: "called" from a dispose() call and "resolved" once it
                      \*          has resolved, "no" from any later call of the API
    ev,               \* history: the step just taken
    \* The provider's segmentation session and the mask panel (SessionSpec)
    currentImageId,     \* WebGPUProvider.currentImageId: n for 'img_n', 0 for null
    imageIdCounter,     \* WebGPUProvider.imageIdCounter
    previousMaskLogits, \* WebGPUProvider.previousMaskLogits: imageId -> logits, Undefined
                        \*   where the map has no entry
    segmentMessage,     \* the 'segment' request awaited by segmentSingleView, or NoMessage
    allMaskCandidates,  \* SamPanel.allMaskCandidates
    selectedMaskIndex,  \* SamPanel.selectedMaskIndex
    usedImageIds,       \* history: every value currentImageId has had
    sessionLogits,      \* history: imageId -> the logits of the last successful segment
                        \*   response of that session, Undefined after a reset
    candidatesImageId,  \* history: the imageId of the response the panel's candidates
                        \*   came with
    \* One run of SAM2Core.decode from the decoder's outputs on (DecodeSpec)
    decoderResults,     \* what decoderSession.run returned: masks, iou_predictions
    original,           \* decode's arguments originalWidth and originalHeight
    decodeResult,       \* what decode returns
    \* One SAM2Core and the calls suspended in it (CoreSpec)
    coreReady,          \* SAM2Core.encoderSession and decoderSession are set
    imageEmbeddings,    \* SAM2Core.imageEmbeddings: imageId -> the encoder run whose
                        \*   image_embed is cached, 0 where the map has no entry
    encoderRuns,        \* encoderSession.run calls so far
    coreTasks,          \* the calls of encodeImage, decode and segment that are
                        \*   suspended at a session run
    encodedSince,       \* history: imageId -> an encoder run for it has completed and
                        \*   its embeddings have not been cleared since
    \* SegmentationService and the mask it holds for preview (ServiceSpec)
    pendingMask,        \* SegmentationService.pendingMask: the number of the segment
                        \*   request whose response it holds, 0 for null
    segmentInFlight,    \* the segment request handleSegmentRequest is awaiting, 0 for none
    nSegments,          \* sam.segment requests so far
    nMaskReady,         \* history: sam.maskReady events fired
    nByMask,            \* history: select.byMask events fired
    nMaskApplied,       \* history: sam.maskApplied events fired
    nMaskCancelled,     \* history: sam.maskCancelled events fired
    \* One run of checkWebGPUCapabilities (ProbeSpec)
    probeEnv,           \* what the probe finds: navigator.gpu, the outcome of requestAdapter,
                        \*   the adapter's maxBufferSize and info
    capabilities,       \* what checkWebGPUCapabilities returns
    \* One run of loadAllModels (LoaderSpec)
    loader,             \* where loadAllModels is: pc, the model being loaded, where it was rejected
    download,           \* the download in progress: the body's size, bytes read, chunks read
    cacheRead,          \* per model, the outcome of getCachedModel
    cacheWrite,         \* per model, the outcome of cacheModel
    models,             \* per model, the bytes loadModel resolved with
    currentModel,       \* currentModel of loadAllModels
    totalLoaded,        \* totalLoaded of loadAllModels
    progress,           \* the calls of onProgress, in order
    \* SegmentationService with its providers (OrchSpec)
    provider,           \* this.provider of SegmentationService: an index of providers, 0 for null
    providers,          \* the WebGPUProvider objects created so far: state, session, previous masks
    initRun,            \* the run of _doInitialize behind this.initPromise, and the events it fired
    orchPendingMask,    \* this.pendingMask: the operation whose response it holds, 0 for null
    ops,                \* the handler invocations so far, each with its position and the events it fired
    \* One SAM2Core instance being initialized and disposed (CreateSpec)
    encoderSession,     \* SAM2Core.encoderSession: the execution provider it was created with, "none" for null
    decoderSession,     \* SAM2Core.decoderSession, likewise
    liveSessions,       \* the sessions created and not released: <<model, execution provider>>
    createRun,          \* where initialize() is: pc, the providers still to try, the one being tried
    disposeRun,         \* where dispose() is
    \* One call of applyMaskToSelection (ApplySpec)
    maskSource,         \* who made the response: "caller" for any response, "segmentSingleView" for the
                        \*   pending mask of the service, "none" before a call
    maskResponse,       \* the response argument: width, height, mask, logits
    maskOptions,        \* the options argument: op, threshold, targetWidth, targetHeight (0 for undefined)
    selection,          \* the canvas passed to select.byMask: width, height and one value per pixel
    applyFired,         \* the events fired by the call, in order
    \* The pending mask and the panel's mask selector (PickSpec)
    heldResponse,       \* SegmentationService.pendingMask.response, NoHeld for a null pendingMask
    panelCandidates,    \* SamPanel.allMaskCandidates: the logits of each candidate
    panelIndex,         \* SamPanel.selectedMaskIndex
    lastPicked,         \* history: the index of the last sam.maskSelected fired since the last
                        \*   sam.maskReady, -1 for none
    appliedLogits,      \* history: the logits of the response last given to applyMaskToSelection
    \* The provider's session together with the engine's cache (CacheSpec)
    encodeMessage,      \* the imageId of the 'encode' request awaited by preEncodeImage, 0 for none
    \* The buffers passed between the provider and its worker (TransferSpec)
    heap,               \* every ArrayBuffer allocated so far: the side ("main" or "worker") it is attached
                        \*   to; buffer b is heap[b]
    storedMask,         \* the buffer of previousMaskLogits.get(currentImageId), 0 for no entry
    channel,            \* the message on its way: its receiver, its type, the buffers its fields
                        \*   refer to and its transfer list
    misuse,             \* history: the buffers read or transferred by a side they were not attached to
    nRequests           \* requests sent to the worker so far

lifecycleVars == <<state, worker, currentProvider, pendingRequests, requestCounter,
                   abortController, calls, nCalls, wstatus, inbox, active, sam2, encoded,
                   nWorkers, rejected, sinceDispose>>

sessionVars == <<currentImageId, imageIdCounter, previousMaskLogits, segmentMessage,
                 allMaskCandidates, selectedMaskIndex, usedImageIds, sessionLogits,
                 candidatesImageId>>

decodeVars == <<decoderResults, original, decodeResult>>

coreVars == <<coreReady, imageEmbeddings, encoderRuns, coreTasks, encodedSince>>

serviceVars == <<pendingMask, segmentInFlight, nSegments, nMaskReady, nByMask,
                 nMaskApplied, nMaskCancelled>>

probeVars == <<probeEnv, capabilities>>

loadVars == <<loader, download, cacheRead, cacheWrite, models, currentModel,
              totalLoaded, progress>>

orchVars == <<provider, providers, initRun, orchPendingMask, ops>>

createVars == <<encoderSession, decoderSession, liveSessions, createRun, disposeRun>>

applyVars == <<maskSource, maskResponse, maskOptions, selection, applyFired>>

pickVars == <<heldResponse, panelCandidates, panelIndex, lastPicked, appliedLogits>>

cacheVars == <<encodeMessage>>

transferVars == <<heap, storedMask, channel, misuse, nRequests>>

\* The variables of the specifications that follow ServiceSpec.
extraVars == <<probeVars, loadVars, orchVars, createVars, applyVars, pickVars,
               cacheVars, transferVars>>

\* What the lifecycle specification Spec leaves alone.
dataVars == <<sessionVars, decodeVars, coreVars, serviceVars, extraVars>>

\* What the session specification SessionSpec leaves alone, besides the lifecycle.
outsideSession == <<decodeVars, coreVars, serviceVars, extraVars>>

\* What DecodeSpec leaves alone.
outsideDecode == <<lifecycleVars, sessionVars, coreVars, serviceVars, extraVars>>

\* What CoreSpec leaves alone.
outsideCore == <<lifecycleVars, sessionVars, decodeVars, serviceVars, extraVars>>

\* What ServiceSpec leaves alone.
outsideService == <<lifecycleVars, sessionVars, decodeVars, coreVars, extraVars>>

\* What ProbeSpec leaves alone.
outsideProbe == <<lifecycleVars, sessionVars, decodeVars, coreVars, serviceVars,
                  loadVars, orchVars, createVars, applyVars, pickVars, cacheVars,
                  transferVars>>

\* What LoaderSpec leaves alone.
outsideLoad == <<lifecycleVars, sessionVars, decodeVars, coreVars, serviceVars,
                 probeVars, orchVars, createVars, applyVars, pickVars, cacheVars,
                 transferVars>>

\* What OrchSpec leaves alone.
outsideOrch == <<lifecycleVars, sessionVars, decodeVars, coreVars, serviceVars,
                 probeVars, loadVars, createVars, applyVars, pickVars, cacheVars,
                 transferVars>>

\* What CreateSpec leaves alone.
outsideCreate == <<lifecycleVars, sessionVars, decodeVars, coreVars, serviceVars,
                   probeVars, loadVars, orchVars, applyVars, pickVars, cacheVars,
                   transferVars>>

\* What ApplySpec leaves alone.
outsideApply == <<lifecycleVars, sessionVars, decodeVars, coreVars, serviceVars,
                  probeVars, loadVars, orchVars, createVars, pickVars, cacheVars,
                  transferVars>>

\* What PickSpec leaves alone.
outsidePick == <<lifecycleVars, sessionVars, decodeVars, coreVars, serviceVars,
                 probeVars, loadVars, orchVars, createVars, applyVars, cacheVars,
                 transferVars>>

\* What CacheSpec leaves alone.
outsideCache == <<lifecycleVars, sessionVars, decodeVars, coreVars, serviceVars,
                  probeVars, loadVars, orchVars, createVars, applyVars, pickVars,
                  transferVars>>

\* What TransferSpec leaves alone.
outsideTransfer == <<lifecycleVars, sessionVars, decodeVars, coreVars, serviceVars,
                     probeVars, loadVars, orchVars, createVars, applyVars,
                     pickVars, cacheVars>>

vars == <<lifecycleVars, ev, dataVars>>

providerVars == <<state, worker, currentProvider, pendingRequests, requestCounter,
                  abortController>>
workerVars == <<wstatus, inbox, active, sam2, encoded, nWorkers>>
engineVars == <<active, sam2, encoded>>
histVars == <<rejected, sinceDispose>>

ProviderState == {"idle", "loading-models", "initializing", "ready", "processing", "error"}

\* A call: the API function (op), the provider state it was called in (from), where
\* it is suspended (pc: loading | initializing | await), whether its abort signal is
\* aborted (sig) and whether abort() has rejected the request it awaits, its
\* continuation not having run yet (rej).
FreeCall == [op |-> "none", from |-> "none", pc |-> "free", sig |-> FALSE, rej |-> FALSE]

NewCall(op, pc) == [op |-> op, from |-> state, pc |-> pc, sig |-> FALSE, rej |-> FALSE]

\* The step just taken: its type (call | abort | msg | debug | resume | load |
\* wstart); the API function whose call it starts or continues (op) and the state
\* that call was made in (from); the call's outcome when the step settles it (out,
\* "none" otherwise) and the provider a resolved initialize() returns (val); for a
\* worker message, the request the worker produced it for (resp): the one it
\* settles (own), one that abort() had rejected (stale), or another one (other).
Ev(type, op, out, resp) ==
    [type |-> type, op |-> op, from |-> "none", out |-> out, val |-> "none", resp |-> resp]

CallEv(op, out) == [Ev("call", op, out, "none") EXCEPT !.from = state]

NoMicrotask == \A c \in Calls : ~calls[c].rej

InFlight == {c \in Calls : calls[c].pc # "free"}

\* A provider as constructed (fresh), or as one successful initialize() leaves it:
\* ready, holding worker 1 whose engine is initialized, request 1 answered.
ProviderInit(fresh) ==
    /\ state = IF fresh THEN "idle" ELSE "ready"
    /\ worker = IF fresh THEN 0 ELSE 1
    /\ currentProvider = IF fresh THEN "null" ELSE "webgpu"
    /\ requestCounter = IF fresh THEN 0 ELSE 1
    /\ nWorkers = IF fresh THEN 0 ELSE 1
    /\ wstatus = [w \in Workers |-> IF ~fresh /\ w = 1 THEN "alive" ELSE "none"]
    /\ sam2 = [w \in Workers |-> IF ~fresh /\ w = 1 THEN "ready" ELSE "null"]
    /\ pendingRequests = <<>>
    /\ abortController = 0
    /\ calls = [c \in Calls |-> FreeCall]
    /\ nCalls = 0
    /\ inbox = [w \in Workers |-> <<>>]
    /\ active = [w \in Workers |-> <<>>]
    /\ encoded = [w \in Workers |-> FALSE]
    /\ rejected = {}
    /\ sinceDispose = "no"

\* No session started, nothing shown in the panel.
SessionInit ==
    /\ currentImageId = 0
    /\ imageIdCounter = 0
    /\ previousMaskLogits = [i \in ImageIds |-> Undefined]
    /\ segmentMessage = NoMessage
    /\ allMaskCandidates = <<>>
    /\ selectedMaskIndex = 0
    /\ usedImageIds = {}
    /\ sessionLogits = [i \in ImageIds |-> Undefined]
    /\ candidatesImageId = 0

\* An absent iou_predictions output.
NoIoU == [present |-> FALSE, data |-> <<>>]

NoTensor == [dims |-> <<>>, data |-> <<>>]

NoResult == [mask |-> <<>>, width |-> 0, height |-> 0, logits |-> <<>>,
             allMasks |-> <<>>, selectedMaskIndex |-> 0]

\* No decode has been called.
DecodeIdle ==
    /\ decoderResults = [masks |-> NoTensor, iou_predictions |-> NoIoU]
    /\ original = <<0, 0>>
    /\ decodeResult = NoResult

\* A suspended engine call: the function called (op: encode | decode | segment),
\* its imageId, the run it awaits (pc: encoding | decoding) and, while encoding,
\* the number of that encoder run.
FreeTask == [op |-> "none", imageId |-> 0, pc |-> "free", run |-> 0]

\* An initialized engine with empty caches.
CoreIdle ==
    /\ coreReady = TRUE
    /\ imageEmbeddings = [i \in ImageIds |-> 0]
    /\ encoderRuns = 0
    /\ coreTasks = [c \in Calls |-> FreeTask]
    /\ encodedSince = [i \in ImageIds |-> FALSE]

\* A service as constructed: no pending mask, nothing fired.
ServiceIdle ==
    /\ pendingMask = 0
    /\ segmentInFlight = 0
    /\ nSegments = 0
    /\ nMaskReady = 0
    /\ nByMask = 0
    /\ nMaskApplied = 0
    /\ nMaskCancelled = 0

\* No adapter info: the adapter has no requestAdapterInfo.
NoInfo == [present |-> FALSE, vendor |-> "", architecture |-> ""]

NoEnv == [gpu |-> FALSE, adapter |-> "none", maxBufferSize |-> 0, info |-> NoInfo]

NoCapabilities == [available |-> FALSE, unavailableReason |-> "none", estimatedVRAM |-> 0,
                   isDiscreteGPU |-> FALSE, isLowVRAM |-> FALSE]

\* No probe has run.
ProbeIdle ==
    /\ probeEnv = NoEnv
    /\ capabilities = NoCapabilities

ModelKeys == {"encoder", "decoder"}

NoDownload == [size |-> 0, total |-> 0, loaded |-> 0, chunks |-> 0]

NoBytes == [from |-> "none", byteLength |-> 0]

\* loadAllModels has not been called.
LoadIdle ==
    /\ loader = [pc |-> "idle", model |-> "none", rejectedAt |-> "none"]
    /\ download = NoDownload
    /\ cacheRead = [m \in ModelKeys |-> "none"]
    /\ cacheWrite = [m \in ModelKeys |-> "none"]
    /\ models = [m \in ModelKeys |-> NoBytes]
    /\ currentModel = ""
    /\ totalLoaded = 0
    /\ progress = <<>>

NoInitRun == [pc |-> "none", p |-> 0, available |-> FALSE, log |-> <<>>]

\* The service has been constructed and has handled no event.
OrchIdle ==
    /\ provider = 0
    /\ providers = <<>>
    /\ initRun = NoInitRun
    /\ orchPendingMask = 0
    /\ ops = <<>>

NoCreateRun == [pc |-> "idle", preferredProvider |-> "none", todo |-> <<>>,
                provider |-> "none", raced |-> FALSE]

\* The engine has been constructed; neither initialize() nor dispose() was called.
CreateIdle ==
    /\ encoderSession = "none"
    /\ decoderSession = "none"
    /\ liveSessions = {}
    /\ createRun = NoCreateRun
    /\ disposeRun = "idle"

\* logits absent from a response
NoLogits == [present |-> FALSE, data |-> <<>>]

NoMaskResponse == [width |-> 0, height |-> 0, mask |-> <<>>, logits |-> NoLogits]

NoMaskOptions == [op |-> "none", hasThreshold |-> FALSE, threshold |-> 0,
                  targetWidth |-> 0, targetHeight |-> 0]

NoCanvas == [width |-> 0, height |-> 0, data |-> <<>>]

\* applyMaskToSelection has not been called.
ApplyIdle ==
    /\ maskSource = "none"
    /\ maskResponse = NoMaskResponse
    /\ maskOptions = NoMaskOptions
    /\ selection = NoCanvas
    /\ applyFired = <<>>

NoHeld == [allMasks |-> <<>>, selectedMaskIndex |-> 0, logits |-> <<>>]

\* No mask is pending and the panel shows no candidates.
PickIdle ==
    /\ heldResponse = NoHeld
    /\ panelCandidates = <<>>
    /\ panelIndex = 0
    /\ lastPicked = -1
    /\ appliedLogits = Undefined

\* No 'encode' request is awaited.
CacheIdle ==
    /\ encodeMessage = 0

NoChannel == [to |-> "none", type |-> "none", buffers |-> <<>>, transfer |-> <<>>]

\* Nothing has been sent to the worker and no previous mask is stored.
TransferIdle ==
    /\ heap = <<>>
    /\ storedMask = 0
    /\ channel = NoChannel
    /\ misuse = {}
    /\ nRequests = 0

ExtraIdle == ProbeIdle /\ LoadIdle /\ OrchIdle /\ CreateIdle /\ ApplyIdle /\ PickIdle /\ CacheIdle /\ TransferIdle

OutsideSessionIdle == DecodeIdle /\ CoreIdle /\ ServiceIdle /\ ExtraIdle

Init ==
    /\ \E fresh \in BOOLEAN : ProviderInit(fresh)
    /\ ev = Ev("init", "none", "none", "none")
    /\ SessionInit
    /\ DecodeIdle
    /\ CoreIdle
    /\ ServiceIdle
    /\ ExtraIdle


(***************************************************************************)
(* Decisions of the provider's code.                                       *)
(***************************************************************************)

\* initialize(): "if (this.state === 'ready') return this.currentProvider"
InitializeIsReady(s) == s = "ready"

InitializeInProgressLoadingOnly(s) == s = "loading-models"

\* initialize(): "if (state === 'loading-models' || state === 'initializing') throw"
InitializeInProgress(s) == s \in {"loading-models", "initializing"}

InitializeFailedStaysPut == "initializing"

\* initialize(): catch { this.setState('error') }
InitializeFailedState == "error"

SegmentSettledStateNoCatch(res) == IF res = "ok" THEN "ready" ELSE "processing"

\* segmentSingleView(): setState('ready') after the await and in the catch block
SegmentSettledState(res) == "ready"

\* abort(): new SegmentationError('Operation aborted', 'ABORTED')
AbortCode == "ABORTED"

AbortRejectsOldestOnly(pend) == IF pend = <<>> THEN {} ELSE {1}

\* abort(): "for (const [, { reject }] of this.pendingRequests) reject(ABORTED)"
AbortRejected(pend) == 1..Len(pend)

ConsumesPendingAlways(rtype) == TRUE

\* handleWorkerMessage(): "if (message.type === 'debug') { ...; return; }"
ConsumesPending(rtype) == rtype # "debug"

NewestPending(pend) == Len(pend)

\* handleWorkerMessage(): "this.pendingRequests.entries().next().value"
OldestPending(pend) == 1

\* initializeWorker(): "return result.provider", which only an 'initialized'
\* response carries.  The engine's choice between webgpu and wasm is not modelled.
ResponseProvider(rtype) == IF rtype = "initialized" THEN "webgpu" ELSE "undefined"

RemoveAt(seq, i) == [j \in 1..(Len(seq) - 1) |-> IF j < i THEN seq[j] ELSE seq[j + 1]]

\* The worker's event loop dispatches the next message whenever no handler is
\* running; a handler suspended at an await is not running.
CanDispatch(w) == wstatus[w] = "alive" /\ inbox[w] # <<>>

(***************************************************************************)
(* sendWorkerMessage, for a caller that has checked this.worker.           *)
(***************************************************************************)
NewRequest(kind, c) == [id |-> requestCounter + 1, kind |-> kind, call |-> c]

PostTo(box, w, kind) == [box EXCEPT ![w] = Append(@, [id |-> requestCounter + 1, kind |-> kind])]

MessageKind(op) == IF op = "segment" THEN "segment" ELSE "encode"

(***************************************************************************)
(* The continuation of call c once the request it awaits has settled with  *)
(* res ("ok" or an error code), the response being of type rtype.  pend is *)
(* pendingRequests without that request.                                   *)
(* box is the workers' inboxes as the step has left them so far, evt the   *)
(* step's event without the call's outcome.                                *)
(***************************************************************************)
Continue(c, res, rtype, pend, box, evt) ==
    LET call   == calls[c]
        inInit == call.pc = "initializing"
        initOk == inInit /\ res = "ok"
        nested == initOk /\ call.op # "initialize"
        disp   == call.pc = "await" /\ call.op = "dispose"
        seg    == call.pc = "await" /\ call.op = "segment"
        sends  == nested /\ worker # 0
        out    == IF inInit /\ res # "ok" THEN res
                  ELSE IF initOk /\ ~nested THEN "resolved"
                  ELSE IF nested THEN (IF worker # 0 THEN "none" ELSE "Error")
                  ELSE IF disp THEN (IF worker # 0 THEN "resolved" ELSE "Error")
                  ELSE IF res = "ok" THEN "resolved" ELSE res
    IN
    /\ state' = IF inInit /\ res # "ok" THEN InitializeFailedState
                ELSE IF initOk /\ ~nested THEN "ready"
                ELSE IF nested /\ call.op = "segment"
                     THEN (IF worker # 0 THEN "processing" ELSE SegmentSettledState("Error"))
                ELSE IF nested THEN "ready"
                ELSE IF disp THEN (IF worker # 0 THEN "idle" ELSE state)
                ELSE IF seg THEN SegmentSettledState(res)
                ELSE state
    /\ currentProvider' = IF initOk THEN ResponseProvider(rtype)
                          ELSE IF disp /\ worker # 0 THEN "null"
                          ELSE currentProvider
    /\ abortController' = IF inInit THEN 0 ELSE abortController
    /\ worker' = IF disp THEN 0 ELSE worker
    /\ wstatus' = IF disp /\ worker # 0 THEN [wstatus EXCEPT ![worker] = "terminated"]
                  ELSE wstatus
    /\ inbox' = IF disp /\ worker # 0 THEN [box EXCEPT ![worker] = <<>>]
                ELSE IF sends THEN PostTo(box, worker, MessageKind(call.op))
                ELSE box
    /\ pendingRequests' = IF sends THEN Append(pend, NewRequest(MessageKind(call.op), c))
                          ELSE pend
    /\ requestCounter' = IF sends THEN requestCounter + 1 ELSE requestCounter
    /\ calls' = [calls EXCEPT ![c] = IF sends THEN [call EXCEPT !.pc = "await", !.rej = FALSE]
                                           ELSE FreeCall]
    /\ sinceDispose' = IF disp /\ worker # 0 /\ sinceDispose = "called" THEN "resolved"
                       ELSE sinceDispose
    /\ ev' = [evt EXCEPT !.op = call.op, !.from = call.from, !.out = out,
                          !.val = IF initOk /\ ~nested THEN ResponseProvider(rtype)
                                  ELSE "none"]


(***************************************************************************)
(* abort(): abort the controller's signal, reject the pending requests,    *)
(* clear the map.  The rejected calls resume in a microtask.               *)
(***************************************************************************)
Owners(pend, idx) == {pend[i].call : i \in idx}

AfterAbort(cs) ==
    [c \in Calls |->
        [cs[c] EXCEPT !.sig = @ \/ (c = abortController),
                      !.rej = @ \/ (c \in Owners(pendingRequests, AbortRejected(pendingRequests)))]]

Rejected == rejected \cup {pendingRequests[i].id : i \in AbortRejected(pendingRequests)}

Abort ==
    /\ UNCHANGED dataVars
    /\ calls' = AfterAbort(calls)
    /\ pendingRequests' = <<>>
    /\ rejected' = Rejected
    /\ ev' = Ev("abort", "abort", "none", "none")
    /\ UNCHANGED <<state, worker, currentProvider, requestCounter, abortController,
                   nCalls, workerVars, sinceDispose>>

(***************************************************************************)
(* initialize()                                                            *)
(***************************************************************************)
\* The try block up to "await loadAllModels(...)", for call slot c.
BeginInitialize(c, op) ==
    /\ state' = "loading-models"
    /\ abortController' = c
    /\ calls' = [calls EXCEPT ![c] = NewCall(op, "loading")]
    /\ nCalls' = nCalls + 1
    /\ ev' = CallEv(op, "none")
    /\ UNCHANGED <<worker, currentProvider, pendingRequests, requestCounter, workerVars>>

Immediate(op, out) ==
    /\ ev' = CallEv(op, out)
    /\ UNCHANGED <<providerVars, calls, nCalls, workerVars>>

InitializeCall ==
    /\ UNCHANGED dataVars
    /\ sinceDispose' = "no"
    /\ UNCHANGED rejected
    /\ \/ /\ InitializeIsReady(state)
          /\ ev' = [CallEv("initialize", "resolved") EXCEPT !.val = currentProvider]
          /\ UNCHANGED <<providerVars, calls, nCalls, workerVars>>
       \/ /\ ~InitializeIsReady(state)
          /\ InitializeInProgress(state)
          /\ Immediate("initialize", "Error")
       \/ /\ ~InitializeIsReady(state)
          /\ ~InitializeInProgress(state)
          /\ nCalls < MaxCalls
          /\ BeginInitialize(nCalls + 1, "initialize")

(***************************************************************************)
(* segmentSingleView(request) and preEncodeImage(...): op is "segment" or  *)
(* "encode".  Only segmentSingleView sets the state.                       *)
(***************************************************************************)
BeginRequest(c, op) ==
    IF worker = 0
    THEN \* sendWorkerMessage rejects: 'Worker not created'
         /\ state' = IF op = "segment" THEN SegmentSettledState("Error") ELSE state
         /\ ev' = CallEv(op, "Error")
         /\ UNCHANGED <<worker, currentProvider, pendingRequests, requestCounter,
                        abortController, calls, nCalls, workerVars>>
    ELSE /\ nCalls < MaxCalls
         /\ state' = IF op = "segment" THEN "processing" ELSE state
         /\ pendingRequests' = Append(pendingRequests, NewRequest(MessageKind(op), c))
         /\ requestCounter' = requestCounter + 1
         /\ inbox' = PostTo(inbox, worker, MessageKind(op))
         /\ calls' = [calls EXCEPT ![c] = NewCall(op, "await")]
         /\ nCalls' = nCalls + 1
         /\ ev' = CallEv(op, "none")
         /\ UNCHANGED <<worker, currentProvider, abortController, wstatus, engineVars,
                        nWorkers>>

RequestCall(op) ==
    /\ UNCHANGED dataVars
    /\ sinceDispose' = "no"
    /\ UNCHANGED rejected
    /\ \/ /\ state = "ready"
          /\ BeginRequest(nCalls + 1, op)
       \/ /\ state = "idle"
          /\ nCalls < MaxCalls
          /\ BeginInitialize(nCalls + 1, op)
       \/ /\ state \notin {"ready", "idle"}
          /\ Immediate(op, "Error")

SegmentSingleViewCall == RequestCall("segment")

PreEncodeImageCall == RequestCall("encode")

(***************************************************************************)
(* dispose(): abort(), then with a worker send 'dispose' and await it.     *)
(***************************************************************************)
DisposeCall ==
    /\ UNCHANGED dataVars
    /\ rejected' = Rejected
    /\ IF worker = 0
       THEN /\ calls' = AfterAbort(calls)
            /\ pendingRequests' = <<>>
            /\ state' = "idle"
            /\ currentProvider' = "null"
            /\ sinceDispose' = "resolved"
            /\ ev' = CallEv("dispose", "resolved")
            /\ UNCHANGED <<worker, requestCounter, abortController, nCalls, workerVars>>
       ELSE /\ nCalls < MaxCalls
            /\ calls' = [AfterAbort(calls) EXCEPT ![nCalls + 1] = NewCall("dispose", "await")]
            /\ pendingRequests' = <<NewRequest("dispose", nCalls + 1)>>
            /\ requestCounter' = requestCounter + 1
            /\ inbox' = PostTo(inbox, worker, "dispose")
            /\ nCalls' = nCalls + 1
            /\ sinceDispose' = "called"
            /\ ev' = CallEv("dispose", "none")
            /\ UNCHANGED <<state, worker, currentProvider, abortController, wstatus,
                           engineVars, nWorkers>>

(***************************************************************************)
(* The microtask of a call whose request abort() rejected.                 *)
(***************************************************************************)
Resume(c) ==
    /\ UNCHANGED dataVars
    /\ calls[c].rej
    /\ Continue(c, AbortCode, "none", pendingRequests, inbox,
                Ev("resume", "none", "none", "none"))
    /\ UNCHANGED <<nCalls, engineVars, nWorkers, rejected>>

(***************************************************************************)
(* The end of "await loadAllModels(...)" in initialize().                  *)
(***************************************************************************)
\* Models loaded: setState('initializing'), createWorker(), initializeWorker().
\* loadAllModels looks at the abort signal only in fetch: with both models in the
\* cache, or the signal aborted after the last fetch, the load still succeeds.
LoadOk(c) ==
    /\ UNCHANGED dataVars
    /\ NoMicrotask
    /\ calls[c].pc = "loading"
    /\ LET w == nWorkers + 1 IN
       /\ state' = "initializing"
       /\ worker' = w
       /\ nWorkers' = w
       /\ wstatus' = [wstatus EXCEPT ![w] = "alive"]
       /\ pendingRequests' = Append(pendingRequests, NewRequest("initialize", c))
       /\ requestCounter' = requestCounter + 1
       /\ inbox' = PostTo(inbox, w, "initialize")
       /\ calls' = [calls EXCEPT ![c].pc = "initializing"]
       /\ ev' = [Ev("load", calls[c].op, "none", "none") EXCEPT !.from = calls[c].from]
    /\ UNCHANGED <<currentProvider, abortController, nCalls, engineVars, histVars>>

InitializeFails(c, out) ==
    /\ UNCHANGED dataVars
    /\ state' = InitializeFailedState
    /\ abortController' = 0
    /\ calls' = [calls EXCEPT ![c] = FreeCall]
    /\ ev' = [Ev("load", calls[c].op, out, "none") EXCEPT !.from = calls[c].from]
    /\ UNCHANGED <<worker, currentProvider, pendingRequests, requestCounter, nCalls,
                   workerVars, histVars>>

\* loadAllModels rejects (network or cache error), or new Worker(...) throws.
\* A load whose signal is aborted ends by the abort (LoadAborted) or, when no
\* fetch was left to see the signal, as if it had not been aborted (LoadOk).
LoadFail(c) ==
    /\ NoMicrotask
    /\ calls[c].pc = "loading"
    /\ ~calls[c].sig
    /\ InitializeFails(c, "Error")

\* A fetch holding the aborted signal rejects with an AbortError.
LoadAborted(c) ==
    /\ NoMicrotask
    /\ calls[c].pc = "loading"
    /\ calls[c].sig
    /\ InitializeFails(c, "ABORTED")

(***************************************************************************)
(* handleWorkerMessage(message) for a message of type rtype that a worker  *)
(* produced for request id (0 for a debug message): return at once on a    *)
(* debug message, else settle the entry OldestPending picks, or drop the   *)
(* message when nothing is pending.  box: the inboxes after the dispatch.  *)
(***************************************************************************)
HandleWorkerMessage(id, rtype, box) ==
    /\ UNCHANGED dataVars
    /\ UNCHANGED <<nCalls, nWorkers, rejected>>
    /\ IF ~ConsumesPending(rtype)
       THEN /\ ev' = Ev("debug", "none", "none", "none")
            /\ inbox' = box
            /\ UNCHANGED <<providerVars, calls, wstatus, sinceDispose>>
       ELSE IF pendingRequests = <<>>
       THEN /\ ev' = Ev("msg", "none", "none", IF id \in rejected THEN "stale" ELSE "other")
            /\ inbox' = box
            /\ UNCHANGED <<providerVars, calls, wstatus, sinceDispose>>
       ELSE LET i == OldestPending(pendingRequests)
                h == pendingRequests[i]
            IN Continue(h.call, IF rtype = "error" THEN "SERVER_ERROR" ELSE "ok", rtype,
                        RemoveAt(pendingRequests, i), box,
                        Ev("msg", "none", "none",
                           IF h.id = id THEN "own"
                           ELSE IF id \in rejected THEN "stale" ELSE "other"))

(***************************************************************************)
(* The worker: self.onmessage.                                             *)
(***************************************************************************)
\* The handler of message m reaches an await on engine work (session creation,
\* an encoder or decoder run, a session release) and is suspended there.
Suspends(w, m) ==
    \/ m.kind = "initialize"
    \/ m.kind = "encode" /\ sam2[w] = "ready" /\ ~encoded[w]
    \/ m.kind = "segment" /\ sam2[w] = "ready"
    \/ m.kind = "dispose" /\ sam2[w] = "ready"

\* What a handler that does not suspend posts.
SyncResponse(w, m) ==
    IF m.kind = "dispose" THEN "disposed"
    ELSE IF sam2[w] # "ready" THEN "error"
    ELSE "encoded"

WorkerStart(w) ==
    /\ UNCHANGED dataVars
    /\ CanDispatch(w)
    /\ Suspends(w, Head(inbox[w]))
    /\ LET m == Head(inbox[w]) IN
       /\ inbox' = [inbox EXCEPT ![w] = Tail(@)]
       /\ active' = [active EXCEPT ![w] = Append(@, m)]
       /\ sam2' = IF m.kind = "initialize" THEN [sam2 EXCEPT ![w] = "created"] ELSE sam2
       /\ encoded' = IF m.kind \in {"initialize", "dispose"}
                     THEN [encoded EXCEPT ![w] = FALSE] ELSE encoded
       /\ ev' = Ev("wstart", "none", "none", "none")
    /\ UNCHANGED <<providerVars, calls, nCalls, wstatus, nWorkers, histVars>>

WorkerRespondSync(w) ==
    /\ NoMicrotask
    /\ CanDispatch(w)
    /\ ~Suspends(w, Head(inbox[w]))
    /\ LET m == Head(inbox[w]) IN
       /\ sam2' = IF m.kind = "dispose" THEN [sam2 EXCEPT ![w] = "null"] ELSE sam2
       /\ encoded' = IF m.kind = "dispose" THEN [encoded EXCEPT ![w] = FALSE] ELSE encoded
       /\ HandleWorkerMessage(m.id, SyncResponse(w, m), [inbox EXCEPT ![w] = Tail(@)])
    /\ UNCHANGED active

\* A suspended handler finishes and posts its response; ok: the engine work succeeded.
WorkerFinish(w, i, ok) ==
    /\ NoMicrotask
    /\ wstatus[w] = "alive"
    /\ i \in 1..Len(active[w])
    /\ LET m == active[w][i] IN
       /\ m.kind = "dispose" => ok
       /\ active' = [active EXCEPT ![w] = RemoveAt(@, i)]
       /\ sam2' = IF m.kind = "initialize" /\ ok /\ sam2[w] = "created"
                  THEN [sam2 EXCEPT ![w] = "ready"]
                  ELSE IF m.kind = "dispose" THEN [sam2 EXCEPT ![w] = "null"]
                  ELSE sam2
       /\ encoded' = IF m.kind \in {"encode", "segment"} /\ ok /\ sam2[w] = "ready"
                     THEN [encoded EXCEPT ![w] = TRUE]
                     ELSE encoded
       /\ HandleWorkerMessage(m.id,
                              IF ~ok THEN "error"
                              ELSE IF m.kind = "initialize" THEN "initialized"
                              ELSE IF m.kind = "encode" THEN "encoded"
                              ELSE IF m.kind = "segment" THEN "segmented"
                              ELSE "disposed",
                              inbox)

\* A handler running the engine posts a 'debug' message; handleWorkerMessage
\* returns before it looks at the pending requests.
WorkerDebug(w) ==
    /\ NoMicrotask
    /\ wstatus[w] = "alive"
    /\ \E i \in 1..Len(active[w]) : active[w][i].kind \in {"encode", "segment"}
    /\ HandleWorkerMessage(0, "debug", inbox)
    /\ UNCHANGED engineVars

Next ==
    \/ InitializeCall
    \/ SegmentSingleViewCall
    \/ PreEncodeImageCall
    \/ Abort
    \/ DisposeCall
    \/ \E c \in Calls : Resume(c)
    \/ \E c \in Calls : LoadOk(c)
    \/ \E c \in Calls : LoadFail(c)
    \/ \E c \in Calls : LoadAborted(c)
    \/ \E w \in Workers : WorkerStart(w)
    \/ \E w \in Workers : WorkerRespondSync(w)
    \/ \E w \in Workers, i \in 1..MaxCalls, ok \in BOOLEAN : WorkerFinish(w, i, ok)
    \/ \E w \in Workers : WorkerDebug(w)

Spec == Init /\ [][Next]_vars

(***************************************************************************)
(* SessionSpec: the provider's segmentation session (currentImageId,       *)
(* imageIdCounter, previousMaskLogits) and the mask panel's candidates.    *)
(* The provider is ready; the pairing of requests and responses, which     *)
(* Spec covers, is left out: a 'segment' request is answered by its own    *)
(* response or by an error.  Logits are sequences over {0, 1}.             *)
(***************************************************************************)
lifecycleRest == <<worker, currentProvider, pendingRequests, requestCounter,
                   abortController, calls, nCalls, wstatus, inbox, active, sam2, encoded,
                   nWorkers, rejected, sinceDispose>>

Zeros == [i \in 1..MaskSize |-> 0]

StaleImageId == IF imageIdCounter = 0 THEN 1 ELSE imageIdCounter

\* `img_${++this.imageIdCounter}`
NewImageId == imageIdCounter + 1

PreviousMaskNone(imageId) == Undefined

\* segmentSingleView: "this.previousMaskLogits.get(imageId)", copied into the request
PreviousMaskFor(imageId) == previousMaskLogits[imageId]

\* segmentSingleView: bestMaskLogits, a zero-filled array of 256 * 256 floats that
\* receives the response's logits, or their first 256 * 256 values, or nothing.
BestMaskLogits(logits) ==
    IF Len(logits) = MaskSize THEN logits
    ELSE IF Len(logits) >= MaskSize THEN SubSeq(logits, 1, MaskSize)
    ELSE Zeros

\* SAM2Core.decode: createMaskInputTensorWithOrt(previousMask ?? null) and
\* createHasMaskTensorWithOrt(previousMask !== undefined)
DecoderFeeds(previousMask) ==
    [mask_input |-> IF previousMask = Undefined THEN Zeros ELSE previousMask,
     has_mask_input |-> IF previousMask # Undefined THEN 1 ELSE 0]

\* What a successful decode returns, as far as the session is concerned: the
\* candidates' logits, the index of the selected one, and its logits.
\* Each plane holds one value throughout.
Plane(p, v) == [i \in 1..p |-> v]

SegmentResults ==
    {[allMasks |-> m, selectedMaskIndex |-> d, logits |-> m[d + 1]] :
        m \in UNION {{[k \in 1..NumCandidates |-> Plane(p, b[k])] :
                         b \in [1..NumCandidates -> {0, 1}]} : p \in PlaneSizes},
        d \in 0..(NumCandidates - 1)}

SessionEv(type, imageId) ==
    [type |-> type, imageId |-> imageId, previousMask |-> Undefined,
     feeds |-> NoFeeds, logits |-> Undefined]

\* The session's imageId for a request: "if (!this.currentImageId) this.currentImageId
\* = `img_${++this.imageIdCounter}`"
UseSession(imageId) ==
    /\ currentImageId = 0 => imageIdCounter < MaxImages
    /\ imageId = IF currentImageId = 0 THEN NewImageId ELSE currentImageId
    /\ currentImageId' = imageId
    /\ imageIdCounter' = IF currentImageId = 0 THEN imageIdCounter + 1 ELSE imageIdCounter
    /\ usedImageIds' = usedImageIds \cup {imageId}

\* startNewSession()
StartNewSession ==
    /\ UNCHANGED outsideSession
    /\ imageIdCounter < MaxImages
    /\ previousMaskLogits' = [i \in ImageIds |-> Undefined]
    /\ currentImageId' = NewImageId
    /\ imageIdCounter' = imageIdCounter + 1
    /\ usedImageIds' = usedImageIds \cup {currentImageId'}
    /\ sessionLogits' = [i \in ImageIds |-> Undefined]
    /\ ev' = SessionEv("startNewSession", currentImageId')
    /\ UNCHANGED <<state, lifecycleRest, segmentMessage, allMaskCandidates,
                   selectedMaskIndex, candidatesImageId>>

\* clearPreviousMask()
ClearPreviousMask ==
    /\ UNCHANGED outsideSession
    /\ currentImageId # 0
    /\ previousMaskLogits' = [previousMaskLogits EXCEPT ![currentImageId] = Undefined]
    /\ sessionLogits' = [sessionLogits EXCEPT ![currentImageId] = Undefined]
    /\ ev' = SessionEv("clearPreviousMask", currentImageId)
    /\ UNCHANGED <<state, lifecycleRest, currentImageId, imageIdCounter, segmentMessage,
                   allMaskCandidates, selectedMaskIndex, usedImageIds, candidatesImageId>>

\* preEncodeImage in state ready, up to the 'encode' request.
PreEncodeImageSend ==
    /\ UNCHANGED outsideSession
    /\ state = "ready"
    /\ \E imageId \in ImageIds :
          /\ UseSession(imageId)
          /\ ev' = SessionEv("encode", imageId)
    /\ UNCHANGED <<state, lifecycleRest, previousMaskLogits, segmentMessage,
                   allMaskCandidates, selectedMaskIndex, sessionLogits, candidatesImageId>>

\* segmentSingleView in state ready, up to the 'segment' request.
SegmentSingleViewSend ==
    /\ UNCHANGED outsideSession
    /\ state = "ready"
    /\ state' = "processing"
    /\ \E imageId \in ImageIds :
          /\ UseSession(imageId)
          /\ segmentMessage' = [imageId |-> imageId, previousMask |-> PreviousMaskFor(imageId)]
          /\ ev' = [SessionEv("segment", imageId) EXCEPT
                        !.previousMask = PreviousMaskFor(imageId)]
    /\ UNCHANGED <<lifecycleRest, previousMaskLogits, allMaskCandidates,
                   selectedMaskIndex, sessionLogits, candidatesImageId>>

\* The worker decodes with the request's previous mask and answers 'segmented';
\* segmentSingleView stores the logits and returns; handleSegmentRequest fires
\* sam.maskReady, on which the panel takes the candidates.
SegmentSingleViewResult(r) ==
    /\ UNCHANGED outsideSession
    /\ state = "processing"
    /\ segmentMessage # NoMessage
    /\ previousMaskLogits' =
          [previousMaskLogits EXCEPT ![segmentMessage.imageId] = BestMaskLogits(r.logits)]
    /\ state' = "ready"
    /\ segmentMessage' = NoMessage
    /\ allMaskCandidates' = r.allMasks
    /\ selectedMaskIndex' = r.selectedMaskIndex
    /\ candidatesImageId' = segmentMessage.imageId
    /\ sessionLogits' = [sessionLogits EXCEPT ![segmentMessage.imageId] = r.logits]
    /\ ev' = [SessionEv("segmented", segmentMessage.imageId) EXCEPT
                  !.previousMask = segmentMessage.previousMask,
                  !.feeds = DecoderFeeds(segmentMessage.previousMask),
                  !.logits = r.logits]
    /\ UNCHANGED <<lifecycleRest, currentImageId, imageIdCounter, usedImageIds>>

\* The request is rejected (worker error, abort): catch { setState('ready') }.
SegmentSingleViewError ==
    /\ UNCHANGED outsideSession
    /\ state = "processing"
    /\ segmentMessage # NoMessage
    /\ state' = "ready"
    /\ segmentMessage' = NoMessage
    /\ ev' = SessionEv("error", segmentMessage.imageId)
    /\ UNCHANGED <<lifecycleRest, currentImageId, imageIdCounter, previousMaskLogits,
                   allMaskCandidates, selectedMaskIndex, usedImageIds, sessionLogits,
                   candidatesImageId>>

\* SamPanel.selectMaskCandidate(index): fires sam.maskSelected, which has no
\* listener in SegmentationService.registerEventHandlers.
SelectMaskCandidate(index) ==
    /\ UNCHANGED outsideSession
    /\ ~(index < 0 \/ index >= Len(allMaskCandidates))
    /\ index # selectedMaskIndex
    /\ selectedMaskIndex' = index
    /\ ev' = SessionEv("maskSelected", candidatesImageId)
    /\ UNCHANGED <<state, lifecycleRest, currentImageId, imageIdCounter,
                   previousMaskLogits, segmentMessage, allMaskCandidates, usedImageIds,
                   sessionLogits, candidatesImageId>>

SessionNext ==
    \/ StartNewSession
    \/ ClearPreviousMask
    \/ PreEncodeImageSend
    \/ SegmentSingleViewSend
    \/ \E r \in SegmentResults : SegmentSingleViewResult(r)
    \/ SegmentSingleViewError
    \/ \E index \in 0..(NumCandidates - 1) : SelectMaskCandidate(index)

SessionSpecInit ==
    /\ ProviderInit(FALSE)
    /\ SessionInit
    /\ OutsideSessionIdle
    /\ ev = SessionEv("init", 0)

SessionSpec == SessionSpecInit /\ [][SessionNext]_vars

(***************************************************************************)
(* DecodeSpec: SAM2Core.decode from the decoder's outputs on, a function   *)
(* of the mask tensor, the IoU predictions and the original image size.    *)
(* A mask tensor has dims [1, K, 1, MaskSize] and logits 0 (at the         *)
(* threshold) or 1 (above it); IoU scores are counted in halves.           *)
(***************************************************************************)
LogitValues == {0, 1}

IoUScores == 0..2

\* The literal 1.0 of "iouScore: iouData ? iouData[i] : 1.0", in halves.
FullScore == 2

\* maxIoU = -Infinity
MinusInfinity == -1

RECURSIVE SeqsOf(_, _)
SeqsOf(S, n) == IF n = 0 THEN {<<>>} ELSE {Append(q, v) : q \in SeqsOf(S, n - 1), v \in S}

\* The decoder gives one IoU score per plane, or no IoU output at all.
DecoderOutputs ==
    UNION {{[masks |-> [dims |-> <<1, K, 1, MaskSize>>, data |-> d], iou_predictions |-> u] :
               d \in SeqsOf(LogitValues, K * MaskSize),
               u \in {NoIoU} \cup {[present |-> TRUE, data |-> q] : q \in SeqsOf(IoUScores, K)}} :
           K \in 1..MaxPlanes}

OriginalSizes == {<<1, 1>>, <<MaskSize, 1>>, <<MaskSize + 1, 2>>}

ExceedsOrEquals(a, b) == a >= b

\* "if (iouData[i] > maxIoU)"
Exceeds(a, b) == a > b

\* The loop over iouData from index i on, best = <<maxIoU, bestMaskIndex>> so far.
RECURSIVE ArgMaxFrom(_, _, _)
ArgMaxFrom(iouData, i, best) ==
    IF i >= Len(iouData) THEN best[2]
    ELSE ArgMaxFrom(iouData, i + 1,
                    IF Exceeds(iouData[i + 1], best[1]) THEN <<iouData[i + 1], i>> ELSE best)

\* bestMaskIndex
BestMaskIndex(iouTensor) ==
    IF iouTensor.present /\ Len(iouTensor.data) > 1
    THEN ArgMaxFrom(iouTensor.data, 0, <<MinusInfinity, 0>>)
    ELSE 0

Min(a, b) == IF a < b THEN a ELSE b

Max(a, b) == IF a > b THEN a ELSE b

\* processMaskLogits(logits, maskIndex) with the default threshold 0.0
ProcessMaskLogits(logits, maskIndex) ==
    LET numMasks == logits.dims[2]
        height == logits.dims[3]
        width == logits.dims[4]
        maskSize == height * width
        index == IF maskIndex < 0 \/ maskIndex >= numMasks
                 THEN Max(0, Min(maskIndex, numMasks - 1))
                 ELSE maskIndex
        maskOffset == index * maskSize
    IN  [mask |-> [i \in 1..maskSize |-> IF logits.data[maskOffset + i] > 0 THEN 255 ELSE 0],
         width |-> width, height |-> height]

NoResize(mask, maskWidth, maskHeight, targetWidth, targetHeight) == mask

\* resizeMask: the mask is drawn scaled onto a canvas of the target size and read
\* back, each pixel re-thresholded at 127.  The scaled drawing is taken as
\* sampling the source pixel under each target pixel.
ResizeMask(mask, maskWidth, maskHeight, targetWidth, targetHeight) ==
    [i \in 1..(targetWidth * targetHeight) |->
        LET x == (i - 1) % targetWidth
            y == (i - 1) \div targetWidth
            sx == (x * maskWidth) \div targetWidth
            sy == (y * maskHeight) \div targetHeight
        IN  IF mask[sy * maskWidth + sx + 1] > 127 THEN 255 ELSE 0]

\* SAM2Core.decode after "await this.decoderSession.run(feeds)"
Decode(results, originalWidth, originalHeight) ==
    LET maskTensor == results.masks
        iouTensor == results.iou_predictions
        bestMaskIndex == BestMaskIndex(iouTensor)
        raw == ProcessMaskLogits(maskTensor, bestMaskIndex)
        maskSize == raw.width * raw.height
        fullLogits == maskTensor.data
        selectedMaskLogits == [i \in 1..maskSize |-> fullLogits[bestMaskIndex * maskSize + i]]
        finalMask == ResizeMask(raw.mask, raw.width, raw.height, originalWidth, originalHeight)
        numMasks == IF iouTensor.present THEN Len(iouTensor.data) ELSE 1
        allMasks ==
            [k \in 1..numMasks |->
                [index |-> k - 1,
                 iouScore |-> IF iouTensor.present THEN iouTensor.data[k] ELSE FullScore,
                 mask |-> ResizeMask(ProcessMaskLogits(maskTensor, k - 1).mask,
                                     raw.width, raw.height, originalWidth, originalHeight),
                 width |-> originalWidth,
                 height |-> originalHeight,
                 logits |-> [j \in 1..maskSize |-> fullLogits[(k - 1) * maskSize + j]]]]
    IN  [mask |-> finalMask, width |-> originalWidth, height |-> originalHeight,
         logits |-> selectedMaskLogits, allMasks |-> allMasks,
         selectedMaskIndex |-> bestMaskIndex]

DecodeEv(type) == [type |-> type]

\* The decoder has run.
DecodeInit ==
    /\ ProviderInit(FALSE)
    /\ SessionInit
    /\ CoreIdle
    /\ ServiceIdle
    /\ ExtraIdle
    /\ decoderResults \in DecoderOutputs
    /\ original \in OriginalSizes
    /\ decodeResult = NoResult
    /\ ev = DecodeEv("run")

DecodeReturn ==
    /\ ev.type = "run"
    /\ decodeResult' = Decode(decoderResults, original[1], original[2])
    /\ ev' = DecodeEv("decoded")
    /\ UNCHANGED <<outsideDecode, decoderResults, original>>

DecodeNext == DecodeReturn

DecodeSpec == DecodeInit /\ [][DecodeNext]_vars

(***************************************************************************)
(* CoreSpec: one SAM2Core, its embeddings cache and the calls of           *)
(* encodeImage, decode and segment that the worker's handlers make.  A     *)
(* call suspends at encoderSession.run or decoderSession.run; the worker   *)
(* starts other handlers meanwhile.                                        *)
(***************************************************************************)
CoreEv(type, imageId) ==
    [type |-> type, imageId |-> imageId, op |-> "none", error |-> "none",
     encodeTime |-> "none", encoderRun |-> FALSE, decoderRun |-> FALSE]

\* encodeImage: "this.imageEmbeddings.has(imageId)"
CacheHit(imageId) == imageEmbeddings[imageId] # 0

NoEmbeddingsNever(imageId) == FALSE

\* decode: "const embeddings = this.imageEmbeddings.get(imageId); if (!embeddings)"
NoEmbeddings(imageId) == imageEmbeddings[imageId] = 0

FreeTasks == {c \in Calls : coreTasks[c].pc = "free"}

\* The slot a new suspended call takes.
NewTask == CHOOSE c \in FreeTasks : \A d \in FreeTasks : c <= d

\* encodeImage(imageId), called by handleEncode
EncodeImageCall(imageId) ==
    /\ UNCHANGED outsideCore
    /\ IF ~coreReady
       THEN /\ ev' = [CoreEv("encode", imageId) EXCEPT !.error = "NotInitialized"]
            /\ UNCHANGED coreVars
       ELSE IF CacheHit(imageId)
       THEN /\ ev' = [CoreEv("encode", imageId) EXCEPT !.encodeTime = "zero"]
            /\ UNCHANGED coreVars
       ELSE /\ FreeTasks # {}
            /\ encoderRuns < MaxRuns
            /\ encoderRuns' = encoderRuns + 1
            /\ coreTasks' = [coreTasks EXCEPT ![NewTask] =
                  [op |-> "encode", imageId |-> imageId, pc |-> "encoding",
                   run |-> encoderRuns + 1]]
            /\ ev' = [CoreEv("encode", imageId) EXCEPT !.encoderRun = TRUE]
            /\ UNCHANGED <<coreReady, imageEmbeddings, encodedSince>>

\* decode(imageId), called by handleDecode
DecodeCall(imageId) ==
    /\ UNCHANGED outsideCore
    /\ IF ~coreReady
       THEN /\ ev' = [CoreEv("decode", imageId) EXCEPT !.error = "NotInitialized"]
            /\ UNCHANGED coreVars
       ELSE IF NoEmbeddings(imageId)
       THEN /\ ev' = [CoreEv("decode", imageId) EXCEPT !.error = "NotEncoded"]
            /\ UNCHANGED coreVars
       ELSE /\ FreeTasks # {}
            /\ coreTasks' = [coreTasks EXCEPT ![NewTask] =
                  [op |-> "decode", imageId |-> imageId, pc |-> "decoding", run |-> 0]]
            /\ ev' = [CoreEv("decode", imageId) EXCEPT !.decoderRun = TRUE]
            /\ UNCHANGED <<coreReady, imageEmbeddings, encoderRuns, encodedSince>>

\* segment(imageId), called by handleSegment: encodeImage, then decode; with the
\* embeddings cached the two follow each other without the worker taking a message.
SegmentCall(imageId) ==
    /\ UNCHANGED outsideCore
    /\ IF ~coreReady
       THEN /\ ev' = [CoreEv("segment", imageId) EXCEPT !.error = "NotInitialized"]
            /\ UNCHANGED coreVars
       ELSE IF CacheHit(imageId)
       THEN /\ ~NoEmbeddings(imageId)
            /\ FreeTasks # {}
            /\ coreTasks' = [coreTasks EXCEPT ![NewTask] =
                  [op |-> "segment", imageId |-> imageId, pc |-> "decoding", run |-> 0]]
            /\ ev' = [CoreEv("segment", imageId) EXCEPT
                          !.encodeTime = "zero", !.decoderRun = TRUE]
            /\ UNCHANGED <<coreReady, imageEmbeddings, encoderRuns, encodedSince>>
       ELSE /\ FreeTasks # {}
            /\ encoderRuns < MaxRuns
            /\ encoderRuns' = encoderRuns + 1
            /\ coreTasks' = [coreTasks EXCEPT ![NewTask] =
                  [op |-> "segment", imageId |-> imageId, pc |-> "encoding",
                   run |-> encoderRuns + 1]]
            /\ ev' = [CoreEv("segment", imageId) EXCEPT !.encoderRun = TRUE]
            /\ UNCHANGED <<coreReady, imageEmbeddings, encodedSince>>

\* encoderSession.run resolves: encodeImage caches image_embed and returns the
\* elapsed time; segment goes on to decode.
EncoderRunDone(c) ==
    /\ UNCHANGED outsideCore
    /\ coreTasks[c].pc = "encoding"
    /\ LET imageId == coreTasks[c].imageId IN
       /\ imageEmbeddings' = [imageEmbeddings EXCEPT ![imageId] = coreTasks[c].run]
       /\ encodedSince' = [encodedSince EXCEPT ![imageId] = TRUE]
       /\ IF coreTasks[c].op = "encode"
          THEN /\ coreTasks' = [coreTasks EXCEPT ![c] = FreeTask]
               /\ ev' = [CoreEv("encoderDone", imageId) EXCEPT
                             !.op = "encode", !.encodeTime = "elapsed"]
          ELSE IF ~coreReady
          THEN /\ coreTasks' = [coreTasks EXCEPT ![c] = FreeTask]
               /\ ev' = [CoreEv("encoderDone", imageId) EXCEPT
                             !.op = "segment", !.error = "NotInitialized"]
          ELSE /\ coreTasks' = [coreTasks EXCEPT ![c].pc = "decoding", ![c].run = 0]
               /\ ev' = [CoreEv("encoderDone", imageId) EXCEPT
                             !.op = "segment", !.encodeTime = "elapsed",
                             !.decoderRun = TRUE]
    /\ UNCHANGED <<coreReady, encoderRuns>>

\* decoderSession.run resolves: decode returns its result.
DecoderRunDone(c) ==
    /\ UNCHANGED outsideCore
    /\ coreTasks[c].pc = "decoding"
    /\ coreTasks' = [coreTasks EXCEPT ![c] = FreeTask]
    /\ ev' = [CoreEv("decoderDone", coreTasks[c].imageId) EXCEPT !.op = coreTasks[c].op]
    /\ UNCHANGED <<coreReady, imageEmbeddings, encoderRuns, encodedSince>>

\* A session run rejects.
RunFails(c) ==
    /\ UNCHANGED outsideCore
    /\ coreTasks[c].pc # "free"
    /\ coreTasks' = [coreTasks EXCEPT ![c] = FreeTask]
    /\ ev' = [CoreEv("runFailed", coreTasks[c].imageId) EXCEPT
                  !.op = coreTasks[c].op, !.error = "ModelIoError"]
    /\ UNCHANGED <<coreReady, imageEmbeddings, encoderRuns, encodedSince>>

\* clearImageCache(imageId)
ClearImageCache(imageId) ==
    /\ UNCHANGED outsideCore
    /\ imageEmbeddings' = [imageEmbeddings EXCEPT ![imageId] = 0]
    /\ encodedSince' = [encodedSince EXCEPT ![imageId] = FALSE]
    /\ ev' = CoreEv("clearImageCache", imageId)
    /\ UNCHANGED <<coreReady, encoderRuns, coreTasks>>

\* clearAllCaches()
ClearAllCaches ==
    /\ UNCHANGED outsideCore
    /\ imageEmbeddings' = [i \in ImageIds |-> 0]
    /\ encodedSince' = [i \in ImageIds |-> FALSE]
    /\ ev' = CoreEv("clearAllCaches", 0)
    /\ UNCHANGED <<coreReady, encoderRuns, coreTasks>>

\* dispose(): clearAllCaches, then the sessions are released and set to null.
DisposeCore ==
    /\ UNCHANGED outsideCore
    /\ coreReady
    /\ imageEmbeddings' = [i \in ImageIds |-> 0]
    /\ encodedSince' = [i \in ImageIds |-> FALSE]
    /\ coreReady' = FALSE
    /\ ev' = CoreEv("dispose", 0)
    /\ UNCHANGED <<encoderRuns, coreTasks>>

CoreNext ==
    \/ \E imageId \in ImageIds : EncodeImageCall(imageId)
    \/ \E imageId \in ImageIds : DecodeCall(imageId)
    \/ \E imageId \in ImageIds : SegmentCall(imageId)
    \/ \E c \in Calls : EncoderRunDone(c)
    \/ \E c \in Calls : DecoderRunDone(c)
    \/ \E c \in Calls : RunFails(c)
    \/ \E imageId \in ImageIds : ClearImageCache(imageId)
    \/ ClearAllCaches
    \/ DisposeCore

CoreInit ==
    /\ ProviderInit(FALSE)
    /\ SessionInit
    /\ DecodeIdle
    /\ CoreIdle
    /\ ServiceIdle
    /\ ExtraIdle
    /\ ev = CoreEv("init", 0)

CoreSpec == CoreInit /\ [][CoreNext]_vars

(***************************************************************************)
(* ServiceSpec: SegmentationService's pending mask.  A sam.segment request *)
(* is answered by the provider with a mask, or fails; sam.applyMask and    *)
(* sam.cancelMask arrive at any time.  A 2D canvas context is available to *)
(* applyMaskToSelection.                                                   *)
(***************************************************************************)
\* An event fired: its name and, for select.byMask, the selection operation.
Fired(name, op) == [name |-> name, op |-> op]

\* The step just taken: the event handled (or the provider's answer) and the
\* events fired by it, in order.
ServiceEv(type, fired) == [type |-> type, fired |-> fired]

\* determineSelectionOp()
DetermineSelectionOp == "add"

HasPendingMaskAlways(mask) == TRUE

\* "if (!this.pendingMask) return"
HasPendingMask(mask) == mask # 0

Count(fired, name) == Cardinality({i \in 1..Len(fired) : fired[i].name = name})

\* The history counters after a step that fired the events of fired.
Counted(fired) ==
    /\ nMaskReady' = nMaskReady + Count(fired, "sam.maskReady")
    /\ nByMask' = nByMask + Count(fired, "select.byMask")
    /\ nMaskApplied' = nMaskApplied + Count(fired, "sam.maskApplied")
    /\ nMaskCancelled' = nMaskCancelled + Count(fired, "sam.maskCancelled")

\* sam.segment: handleSegmentRequest up to "await this.provider.segmentSingleView".
SegmentRequest ==
    /\ UNCHANGED outsideService
    /\ segmentInFlight = 0
    /\ nSegments < MaxSegments
    /\ nSegments' = nSegments + 1
    /\ segmentInFlight' = nSegments + 1
    /\ ev' = ServiceEv("sam.segment", <<Fired("sam.segmentStart", "none")>>)
    /\ Counted(ev'.fired)
    /\ UNCHANGED pendingMask

\* The provider resolves with a response that holds a mask.
SegmentResponse ==
    /\ UNCHANGED outsideService
    /\ segmentInFlight # 0
    /\ pendingMask' = segmentInFlight
    /\ segmentInFlight' = 0
    /\ ev' = ServiceEv("segmented", <<Fired("sam.maskReady", "none"),
                                      Fired("sam.segmentComplete", "none")>>)
    /\ Counted(ev'.fired)
    /\ UNCHANGED nSegments

\* The provider rejects, or its response holds no mask.
SegmentRejected ==
    /\ UNCHANGED outsideService
    /\ segmentInFlight # 0
    /\ segmentInFlight' = 0
    /\ ev' = ServiceEv("failed", <<Fired("sam.segmentError", "none")>>)
    /\ Counted(ev'.fired)
    /\ UNCHANGED <<pendingMask, nSegments>>

\* sam.applyMask: applyPendingMask()
ApplyPendingMask ==
    /\ UNCHANGED outsideService
    /\ IF ~HasPendingMask(pendingMask)
       THEN /\ ev' = ServiceEv("sam.applyMask", <<>>)
            /\ UNCHANGED pendingMask
       ELSE /\ pendingMask' = 0
            /\ ev' = ServiceEv("sam.applyMask",
                               <<Fired("select.byMask", DetermineSelectionOp),
                                 Fired("sam.maskApplied", "none")>>)
    /\ Counted(ev'.fired)
    /\ UNCHANGED <<segmentInFlight, nSegments>>

\* sam.cancelMask: cancelPendingMask()
CancelPendingMask ==
    /\ UNCHANGED outsideService
    /\ IF ~HasPendingMask(pendingMask)
       THEN /\ ev' = ServiceEv("sam.cancelMask", <<>>)
            /\ UNCHANGED pendingMask
       ELSE /\ pendingMask' = 0
            /\ ev' = ServiceEv("sam.cancelMask", <<Fired("sam.maskCancelled", "none")>>)
    /\ Counted(ev'.fired)
    /\ UNCHANGED <<segmentInFlight, nSegments>>

ServiceNext ==
    \/ SegmentRequest
    \/ SegmentResponse
    \/ SegmentRejected
    \/ ApplyPendingMask
    \/ CancelPendingMask

ServiceInit ==
    /\ ProviderInit(FALSE)
    /\ SessionInit
    /\ DecodeIdle
    /\ CoreIdle
    /\ ServiceIdle
    /\ ExtraIdle
    /\ ev = ServiceEv("init", <<>>)

ServiceSpec == ServiceInit /\ [][ServiceNext]_vars

(***************************************************************************)
(* ProbeSpec: checkWebGPUCapabilities as a function of what it finds.      *)
(* Byte counts are in units of 256 MiB.                                    *)
(***************************************************************************)
\* LOW_VRAM_THRESHOLD = 4 * 1024 * 1024 * 1024 bytes
LOW_VRAM_THRESHOLD == 16

Vendors == {"", "nvidia", "amd", "intel", "apple"}

Architectures == {"", "arc", "rdna"}

\* What the probe can find: no navigator.gpu; requestAdapter throwing or giving
\* null; an adapter, whose requestAdapterInfo (if it has one) throws or gives info.
ProbeEnvs ==
    {NoEnv}
    \cup {[gpu |-> TRUE, adapter |-> a, maxBufferSize |-> 0, info |-> NoInfo] :
             a \in {"null", "throws"}}
    \cup {[gpu |-> TRUE, adapter |-> a, maxBufferSize |-> b, info |-> i] :
             a \in {"ok", "infoThrows"}, b \in 0..MaxBuffer,
             i \in {NoInfo} \cup {[present |-> TRUE, vendor |-> v, architecture |-> r] :
                                     v \in Vendors, r \in Architectures}}

\* detectDiscreteGPU: a discrete keyword in the vendor, or Intel Arc.
DetectDiscreteGPU(info) ==
    \/ info.vendor \in {"nvidia", "amd"}
    \/ info.vendor = "intel" /\ info.architecture = "arc"

Unavailable(reason) ==
    [available |-> FALSE, unavailableReason |-> reason, estimatedVRAM |-> 0,
     isDiscreteGPU |-> FALSE, isLowVRAM |-> TRUE]

\* "estimatedVRAM < LOW_VRAM_THRESHOLD && estimatedVRAM > 0"
IsLowVRAM(estimatedVRAM) == estimatedVRAM < LOW_VRAM_THRESHOLD /\ estimatedVRAM > 0

CheckWebGPUCapabilities(env) ==
    IF ~env.gpu THEN Unavailable("WebGPU API not available in this browser")
    ELSE IF env.adapter = "throws" THEN Unavailable("WebGPU initialization failed")
    ELSE IF env.adapter = "null" THEN Unavailable("No WebGPU adapter available")
    ELSE IF env.adapter = "infoThrows" /\ env.info.present
         THEN Unavailable("WebGPU initialization failed")
    ELSE LET estimatedVRAM == env.maxBufferSize * 4 IN
         [available |-> TRUE, unavailableReason |-> "none",
          estimatedVRAM |-> estimatedVRAM,
          isDiscreteGPU |-> IF env.info.present THEN DetectDiscreteGPU(env.info) ELSE FALSE,
          isLowVRAM |-> IsLowVRAM(estimatedVRAM)]

ProbeEv(type) == [type |-> type]

ProbeInit ==
    /\ ProviderInit(FALSE)
    /\ SessionInit
    /\ DecodeIdle
    /\ CoreIdle
    /\ ServiceIdle
    /\ LoadIdle
    /\ OrchIdle
    /\ CreateIdle
    /\ ApplyIdle
    /\ PickIdle
    /\ CacheIdle
    /\ TransferIdle
    /\ probeEnv \in ProbeEnvs
    /\ capabilities = NoCapabilities
    /\ ev = ProbeEv("probe")

ProbeReturn ==
    /\ ev.type = "probe"
    /\ capabilities' = CheckWebGPUCapabilities(probeEnv)
    /\ ev' = ProbeEv("probed")
    /\ UNCHANGED <<outsideProbe, probeEnv>>

ProbeNext == ProbeReturn

ProbeSpec == ProbeInit /\ [][ProbeNext]_vars

(***************************************************************************)
(* LoaderSpec: one run of loadAllModels, with the durable cache and the    *)
(* network as they may behave.  Byte counts are in MiB.                    *)
(***************************************************************************)
SAM2_MODELS ==
    [encoder |-> [name |-> "SAM2 Encoder", expectedSize |-> 42],
     decoder |-> [name |-> "SAM2 Decoder", expectedSize |-> 15]]

\* The byte sizes a stored or served model can have.
ActualSizes(modelKey) ==
    {SAM2_MODELS[modelKey].expectedSize + d : d \in (0 - SizeSlack)..SizeSlack}

LoadEv(type) == [type |-> type]

\* totalSize of loadAllModels
TotalSize == SAM2_MODELS.encoder.expectedSize + SAM2_MODELS.decoder.expectedSize

\* trackProgress(loaded, total, modelName): the new currentModel and totalLoaded,
\* and the call of onProgress it makes.
TrackProgress(loaded, total, modelName) ==
    LET newModel == modelName # currentModel
        cm == IF newModel THEN modelName ELSE currentModel
        tl == IF newModel /\ currentModel = SAM2_MODELS.encoder.name
              THEN SAM2_MODELS.encoder.expectedSize ELSE totalLoaded
        overallLoaded == IF cm = SAM2_MODELS.encoder.name
                         THEN loaded
                         ELSE SAM2_MODELS.encoder.expectedSize + loaded
    IN  [currentModel |-> cm, totalLoaded |-> tl,
         call |-> [loaded |-> overallLoaded, total |-> TotalSize, stage |-> modelName]]

Tracked(loaded, total, modelName) ==
    LET t == TrackProgress(loaded, total, modelName) IN
    /\ currentModel' = t.currentModel
    /\ totalLoaded' = t.totalLoaded
    /\ progress' = Append(progress, t.call)

\* loadModel of the current model resolved with bytes: loadAllModels goes on to
\* the decoder, or resolves.
LoadModelResolved(bytes, cm) ==
    /\ models' = [models EXCEPT ![loader.model] = bytes]
    /\ IF loader.model = "encoder"
       THEN /\ loader' = [loader EXCEPT !.pc = "cache", !.model = "decoder"]
            /\ currentModel' = SAM2_MODELS.decoder.name
       ELSE /\ loader' = [loader EXCEPT !.pc = "resolved"]
            /\ currentModel' = cm

LoadRejected(at) == loader' = [loader EXCEPT !.pc = "rejected", !.rejectedAt = at]

LoaderInit ==
    /\ ProviderInit(FALSE)
    /\ SessionInit
    /\ DecodeIdle
    /\ CoreIdle
    /\ ServiceIdle
    /\ ProbeIdle
    /\ LoadIdle
    /\ OrchIdle
    /\ CreateIdle
    /\ ApplyIdle
    /\ PickIdle
    /\ CacheIdle
    /\ TransferIdle
    /\ ev = LoadEv("init")

LoadAllModels ==
    /\ loader.pc = "idle"
    /\ loader' = [loader EXCEPT !.pc = "cache", !.model = "encoder"]
    /\ currentModel' = SAM2_MODELS.encoder.name
    /\ totalLoaded' = 0
    /\ ev' = LoadEv("loadAllModels")
    /\ UNCHANGED <<outsideLoad, download, cacheRead, cacheWrite, models, progress>>

\* getCachedModel and what loadModel does with its result.  A failing open is
\* awaited inside the try and gives null; the promise of the get request is
\* returned without await, so its rejection is getCachedModel's.
GetCachedModel ==
    /\ loader.pc = "cache"
    /\ \E outcome \in {"hit", "miss", "openFails", "getFails"} :
          /\ cacheRead' = [cacheRead EXCEPT ![loader.model] = outcome]
          /\ CASE outcome = "hit" ->
                    \E size \in ActualSizes(loader.model) :
                       LET t == TrackProgress(size, size, SAM2_MODELS[loader.model].name) IN
                       /\ totalLoaded' = t.totalLoaded
                       /\ progress' = Append(progress, t.call)
                       /\ LoadModelResolved([from |-> "cache", byteLength |-> size],
                                            t.currentModel)
               [] outcome \in {"miss", "openFails"} ->
                    /\ loader' = [loader EXCEPT !.pc = "fetch"]
                    /\ UNCHANGED <<models, currentModel, totalLoaded, progress>>
               [] outcome = "getFails" ->
                    /\ LoadRejected("cacheRead")
                    /\ UNCHANGED <<models, currentModel, totalLoaded, progress>>
    /\ ev' = LoadEv("getCachedModel")
    /\ UNCHANGED <<outsideLoad, download, cacheWrite>>

\* downloadModel up to its first read: fetch, the status, content-length, and the
\* fallback without a body.
Fetch ==
    /\ loader.pc = "fetch"
    /\ \E outcome \in {"stream", "noBody", "notOk", "throws"},
          size \in ActualSizes(loader.model), contentLength \in BOOLEAN :
          CASE outcome \in {"notOk", "throws"} ->
                 /\ LoadRejected("download")
                 /\ UNCHANGED <<download, currentModel, totalLoaded, progress>>
            [] outcome = "noBody" ->
                 /\ Tracked(size, size, SAM2_MODELS[loader.model].name)
                 /\ download' = [size |-> size, total |-> size, loaded |-> size, chunks |-> 0]
                 /\ loader' = [loader EXCEPT !.pc = "write"]
            [] outcome = "stream" ->
                 /\ download' = [size |-> size,
                                 total |-> IF contentLength THEN size
                                           ELSE SAM2_MODELS[loader.model].expectedSize,
                                 loaded |-> 0, chunks |-> 0]
                 /\ loader' = [loader EXCEPT !.pc = "read"]
                 /\ UNCHANGED <<currentModel, totalLoaded, progress>>
    /\ ev' = LoadEv("fetch")
    /\ UNCHANGED <<outsideLoad, cacheRead, cacheWrite, models>>

\* The lengths the next chunk can have: one MiB, or all that is left.
ChunkLengths ==
    LET remaining == download.size - download.loaded IN
    IF download.chunks + 1 >= MaxChunks THEN {remaining}
    ELSE {1, remaining}

\* reader.read() gives a chunk.
ReadChunk ==
    /\ loader.pc = "read"
    /\ download.loaded < download.size
    /\ \E length \in ChunkLengths :
          LET loaded == download.loaded + length IN
          /\ download' = [download EXCEPT !.loaded = loaded, !.chunks = @ + 1]
          /\ Tracked(loaded, download.total, SAM2_MODELS[loader.model].name)
    /\ ev' = LoadEv("chunk")
    /\ UNCHANGED <<outsideLoad, loader, cacheRead, cacheWrite, models>>

\* reader.read() gives done: the chunks are combined into a buffer of loaded bytes.
ReadDone ==
    /\ loader.pc = "read"
    /\ download.loaded = download.size
    /\ loader' = [loader EXCEPT !.pc = "write"]
    /\ ev' = LoadEv("done")
    /\ UNCHANGED <<outsideLoad, download, cacheRead, cacheWrite, models, currentModel,
                   totalLoaded, progress>>

\* reader.read() rejects (the network fails, or the signal aborts).
ReadFails ==
    /\ loader.pc = "read"
    /\ LoadRejected("download")
    /\ ev' = LoadEv("readFails")
    /\ UNCHANGED <<outsideLoad, download, cacheRead, cacheWrite, models, currentModel,
                   totalLoaded, progress>>

\* cacheModel and the rest of loadModel.  A failing open is awaited inside the try
\* and swallowed; the promise of the put request is returned without await, so its
\* rejection is cacheModel's, and "await cacheModel" throws in loadModel.
CacheModel ==
    /\ loader.pc = "write"
    /\ \E outcome \in {"ok", "openFails", "putFails"} :
          /\ cacheWrite' = [cacheWrite EXCEPT ![loader.model] = outcome]
          /\ IF outcome = "putFails"
             THEN /\ LoadRejected("cacheWrite")
                  /\ UNCHANGED <<models, currentModel>>
             ELSE LoadModelResolved([from |-> "network", byteLength |-> download.loaded],
                                    currentModel)
    /\ download' = NoDownload
    /\ ev' = LoadEv("cacheModel")
    /\ UNCHANGED <<outsideLoad, cacheRead, totalLoaded, progress>>

LoaderNext ==
    \/ LoadAllModels
    \/ GetCachedModel
    \/ Fetch
    \/ ReadChunk
    \/ ReadDone
    \/ ReadFails
    \/ CacheModel

LoaderSpec == LoaderInit /\ [][LoaderNext]_vars

(***************************************************************************)
(* OrchSpec: SegmentationService handling sam.segment, sam.capturePreview, *)
(* sam.initializeProvider and sam.disposeProvider.  A handler runs up to   *)
(* its next await in one step; what it awaits (the capability probe, the   *)
(* provider's initialize, render.offscreen, a call of the provider)        *)
(* settles in a later step, one way or the other.  A WebGPUProvider is its *)
(* state, its session and the imageIds it holds previous masks for.        *)
(***************************************************************************)
\* No imageId (currentImageId is null).
NoId == <<0, 0>>

\* createWebGPUProvider(): a provider as constructed.
NewProvider ==
    [state |-> "idle", imageIdCounter |-> 0, currentImageId |-> NoId, previousMasks |-> {}]

\* A handler invocation: the event, where it is, the number of points, the events
\* fired and steps taken for it, the session its capture started, and the provider
\* and imageId of its call of the provider.
NewOp(kind, pc, points, log) ==
    [kind |-> kind, pc |-> pc, points |-> points, log |-> log,
     session |-> NoId, callee |-> 0, imageId |-> NoId]

\* The step just taken, the invocation it belongs to, and a flag: for sam.segment
\* whether the point list was empty, for the probe whether the GPU is available.
OrchEv(type, op, flag) == [type |-> type, op |-> op, flag |-> flag]

NoPointsNever(points) == FALSE

\* "points.length === 0"
NoPoints(points) == points = 0

MaskEventsNoReady == <<"sam.segmentComplete">>

\* The events handleSegmentRequest fires for a response with a mask.
MaskEvents == <<"sam.maskReady", "sam.segmentComplete">>

\* What checkWebGPUCapabilities can return.
ProbedCapabilities == {CheckWebGPUCapabilities(env) : env \in ProbeEnvs}

\* No handler is about to resume: the job queue is empty, so a new event or a
\* settled request can be handled.
Quiet == \A i \in 1..Len(ops) : ops[i].pc \notin {"initDone", "initFailed"}

\* "!this.provider || this.provider.getState() !== 'ready'"
NeedsInit == provider = 0 \/ providers[provider].state # "ready"

\* initializeProvider() up to its await, for a caller that needs the provider:
\* the pending promise is returned, or _doInitialize starts with the probe.
InitializeProvider ==
    IF initRun.pc # "none" THEN initRun ELSE [NoInitRun EXCEPT !.pc = "probe"]

\* startNewSession()
NewSession(pr, p) ==
    [pr EXCEPT !.previousMasks = {},
               !.imageIdCounter = @ + 1,
               !.currentImageId = <<p, pr.imageIdCounter + 1>>]

\* "if (!this.currentImageId) this.currentImageId = `img_${++this.imageIdCounter}`"
WithImageId(pr, p) ==
    IF pr.currentImageId # NoId THEN pr
    ELSE [pr EXCEPT !.imageIdCounter = @ + 1,
                    !.currentImageId = <<p, pr.imageIdCounter + 1>>]

\* The handlers awaiting this.initPromise are resumed with its outcome; the
\* finally of initializeProvider has cleared initPromise by then.
InitSettled(pc) ==
    [i \in 1..Len(ops) |-> IF ops[i].pc = "awaitInit" THEN [ops[i] EXCEPT !.pc = pc]
                           ELSE ops[i]]

\* The catch of handleSegmentRequest or of preEncodeImage.
Failed(op) ==
    [op EXCEPT !.pc = "done",
               !.log = Append(@, IF op.kind = "segment" THEN "sam.segmentError"
                                 ELSE "sam.encodingError")]

OrchInit ==
    /\ ProviderInit(FALSE)
    /\ SessionInit
    /\ DecodeIdle
    /\ CoreIdle
    /\ ServiceIdle
    /\ ProbeIdle
    /\ LoadIdle
    /\ OrchIdle
    /\ CreateIdle
    /\ ApplyIdle
    /\ PickIdle
    /\ CacheIdle
    /\ TransferIdle
    /\ ev = OrchEv("init", 0, FALSE)

\* sam.segment: handleSegmentRequest up to its first await.
SamSegment ==
    /\ Quiet
    /\ Len(ops) < MaxOps
    /\ \E points \in 0..1 :
          /\ IF NoPoints(points)
             THEN /\ ops' = Append(ops, NewOp("segment", "done", points, <<>>))
                  /\ UNCHANGED initRun
             ELSE /\ ops' = Append(ops, NewOp("segment",
                                              IF NeedsInit THEN "awaitInit" ELSE "awaitRender",
                                              points, <<"sam.segmentStart">>))
                  /\ initRun' = IF NeedsInit THEN InitializeProvider ELSE initRun
          /\ ev' = OrchEv("sam.segment", Len(ops) + 1, points = 0)
    /\ UNCHANGED <<outsideOrch, provider, providers, orchPendingMask>>

\* sam.capturePreview: captureViewportPreview up to "await render.offscreen".
SamCapturePreview ==
    /\ Quiet
    /\ Len(ops) < MaxOps
    /\ ops' = Append(ops, NewOp("capture", "awaitRender", 0, <<>>))
    /\ ev' = OrchEv("sam.capturePreview", Len(ops) + 1, FALSE)
    /\ UNCHANGED <<outsideOrch, provider, providers, initRun, orchPendingMask>>

\* sam.initializeProvider: initializeProvider() up to its await.
SamInitializeProvider ==
    /\ Quiet
    /\ Len(ops) < MaxOps
    /\ IF initRun.pc = "none" /\ ~NeedsInit
       THEN /\ ops' = Append(ops, NewOp("init", "done", 0, <<>>))
            /\ UNCHANGED initRun
       ELSE /\ ops' = Append(ops, NewOp("init", "awaitInit", 0, <<>>))
            /\ initRun' = InitializeProvider
    /\ ev' = OrchEv("sam.initializeProvider", Len(ops) + 1, FALSE)
    /\ UNCHANGED <<outsideOrch, provider, providers, orchPendingMask>>

\* sam.disposeProvider: dispose()
SamDisposeProvider ==
    /\ Quiet
    /\ provider # 0
    /\ providers' = [providers EXCEPT ![provider].state = "idle"]
    /\ provider' = 0
    /\ ev' = OrchEv("sam.disposeProvider", 0, FALSE)
    /\ UNCHANGED <<outsideOrch, initRun, orchPendingMask, ops>>

\* checkWebGPUCapabilities() has returned: _doInitialize up to
\* "await this.provider.initialize()", or to its throw.
ProbeDone ==
    /\ Quiet
    /\ initRun.pc = "probe"
    /\ \E caps \in ProbedCapabilities :
          /\ IF ~caps.available
             THEN /\ initRun' = [initRun EXCEPT !.pc = "none",
                                                !.log = <<"sam.capabilities", "sam.initError">>]
                  /\ ops' = InitSettled("initFailed")
                  /\ UNCHANGED <<provider, providers>>
             ELSE /\ initRun' = [pc |-> "initialize", p |-> Len(providers) + 1,
                                 available |-> TRUE,
                                 log |-> IF caps.isLowVRAM
                                         THEN <<"sam.capabilities", "sam.lowVramWarning">>
                                         ELSE <<"sam.capabilities">>]
                  /\ providers' = Append(providers,
                                         [NewProvider EXCEPT !.state = "loading-models"])
                  /\ provider' = Len(providers) + 1
                  /\ UNCHANGED ops
          /\ ev' = OrchEv("probed", 0, caps.available)
    /\ UNCHANGED <<outsideOrch, orchPendingMask>>

\* The provider's initialize() has settled: the rest of _doInitialize, and the
\* finally of initializeProvider.
ProviderInitialized ==
    /\ Quiet
    /\ initRun.pc = "initialize"
    /\ \E ok \in BOOLEAN :
          /\ providers' = [providers EXCEPT
                              ![initRun.p].state = IF ok THEN "ready" ELSE "error"]
          /\ initRun' = [initRun EXCEPT
                            !.pc = "none",
                            !.log = Append(@, IF ok THEN "sam.providerReady"
                                              ELSE "sam.initError")]
          /\ ops' = InitSettled(IF ok THEN "initDone" ELSE "initFailed")
          /\ ev' = OrchEv("initialized", 0, ok)
    /\ UNCHANGED <<outsideOrch, provider, orchPendingMask>>

\* A handler resumes after "await this.initializeProvider()".
ResumeOp(i) ==
    /\ ops[i].pc \in {"initDone", "initFailed"}
    /\ LET op == ops[i] IN
       CASE op.kind = "init" ->
              /\ ops' = [ops EXCEPT ![i].pc = "done"]
              /\ UNCHANGED providers
         [] op.kind # "init" /\ (op.pc = "initFailed" \/ provider = 0) ->
              /\ ops' = [ops EXCEPT ![i] = Failed(op)]
              /\ UNCHANGED providers
         [] op.kind = "segment" /\ op.pc = "initDone" /\ provider # 0 ->
              /\ ops' = [ops EXCEPT ![i].pc = "awaitRender"]
              /\ UNCHANGED providers
         [] op.kind = "capture" /\ op.pc = "initDone" /\ provider # 0 ->
              IF providers[provider].state # "ready"
              THEN /\ ops' = [ops EXCEPT ![i] = Failed(op)]
                   /\ UNCHANGED providers
              ELSE LET pr == WithImageId(providers[provider], provider) IN
                   /\ providers' = [providers EXCEPT ![provider] = pr]
                   /\ ops' = [ops EXCEPT ![i].pc = "awaitProvider",
                                         ![i].callee = provider,
                                         ![i].imageId = pr.currentImageId]
    /\ ev' = OrchEv("resumed", i, FALSE)
    /\ UNCHANGED <<outsideOrch, provider, initRun, orchPendingMask>>

\* render.offscreen has settled for sam.segment: up to
\* "await this.provider.segmentSingleView(request)", or to the catch.
SegmentRendered(i) ==
    /\ Quiet
    /\ ops[i].kind = "segment"
    /\ ops[i].pc = "awaitRender"
    /\ \E ok \in BOOLEAN :
          LET captured == [ops[i] EXCEPT !.log = Append(@, "sam.imageCaptured")] IN
          /\ CASE ~ok ->
                    /\ ops' = [ops EXCEPT ![i] = Failed(ops[i])]
                    /\ UNCHANGED providers
               [] ok /\ NeedsInit ->
                    /\ ops' = [ops EXCEPT ![i] = Failed(captured)]
                    /\ UNCHANGED providers
               [] ok /\ ~NeedsInit ->
                    LET pr == WithImageId(providers[provider], provider) IN
                    /\ providers' = [providers EXCEPT
                                        ![provider] = [pr EXCEPT !.state = "processing"]]
                    /\ ops' = [ops EXCEPT ![i] = [captured EXCEPT
                                                     !.pc = "awaitProvider",
                                                     !.callee = provider,
                                                     !.imageId = pr.currentImageId]]
          /\ ev' = OrchEv("rendered", i, ok)
    /\ UNCHANGED <<outsideOrch, provider, initRun, orchPendingMask>>

\* render.offscreen has settled for sam.capturePreview: the rest of
\* captureViewportPreview, and preEncodeImage up to its first await.
CaptureRendered(i) ==
    /\ Quiet
    /\ ops[i].kind = "capture"
    /\ ops[i].pc = "awaitRender"
    /\ \E ok \in BOOLEAN :
          /\ IF ~ok
             THEN /\ ops' = [ops EXCEPT ![i].pc = "done"]
                  /\ UNCHANGED <<providers, initRun>>
             ELSE LET pr == IF provider # 0
                            THEN NewSession(providers[provider], provider)
                            ELSE NewProvider
                      started == [ops[i] EXCEPT
                                     !.session = pr.currentImageId,
                                     !.log = <<"render.offscreen">>
                                             \o (IF provider # 0 THEN <<"startNewSession">>
                                                 ELSE <<>>)
                                             \o <<"sam.imageCaptured", "sam.encodingStart">>]
                  IN
                  IF NeedsInit
                  THEN /\ ops' = [ops EXCEPT ![i] = [started EXCEPT !.pc = "awaitInit"]]
                       /\ initRun' = InitializeProvider
                       /\ providers' = IF provider # 0
                                       THEN [providers EXCEPT ![provider] = pr]
                                       ELSE providers
                  ELSE /\ ops' = [ops EXCEPT ![i] = [started EXCEPT
                                                        !.pc = "awaitProvider",
                                                        !.callee = provider,
                                                        !.imageId = pr.currentImageId]]
                       /\ providers' = [providers EXCEPT ![provider] = pr]
                       /\ UNCHANGED initRun
          /\ ev' = OrchEv("rendered", i, ok)
    /\ UNCHANGED <<outsideOrch, provider, orchPendingMask>>

StoredMasksAlways(masks, imageId, outcome) == masks \cup {imageId}

\* segmentSingleView: "this.previousMaskLogits.set(imageId, bestMaskLogits)" once the
\* worker has answered, not when the request was rejected.
StoredMasks(masks, imageId, outcome) ==
    IF outcome = "mask" THEN masks \cup {imageId} ELSE masks

\* provider.segmentSingleView has settled: with a mask, without one, or rejected.
SegmentSettled(i) ==
    /\ Quiet
    /\ ops[i].kind = "segment"
    /\ ops[i].pc = "awaitProvider"
    /\ \E outcome \in {"mask", "noMask", "rejected"} :
          /\ providers' = [providers EXCEPT
                              ![ops[i].callee] =
                                  [@ EXCEPT !.state = "ready",
                                            !.previousMasks =
                                                StoredMasks(@, ops[i].imageId, outcome)]]
          /\ IF outcome = "mask"
             THEN /\ orchPendingMask' = i
                  /\ ops' = [ops EXCEPT ![i].pc = "done", ![i].log = @ \o MaskEvents]
             ELSE /\ ops' = [ops EXCEPT ![i] = Failed(ops[i])]
                  /\ UNCHANGED orchPendingMask
          /\ ev' = OrchEv("segmented", i, outcome = "mask")
    /\ UNCHANGED <<outsideOrch, provider, initRun>>

\* provider.preEncodeImage has settled.
EncodeSettled(i) ==
    /\ Quiet
    /\ ops[i].kind = "capture"
    /\ ops[i].pc = "awaitProvider"
    /\ \E ok \in BOOLEAN :
          /\ ops' = [ops EXCEPT ![i] = IF ok
                                       THEN [ops[i] EXCEPT
                                                !.pc = "done",
                                                !.log = Append(@, "sam.encodingComplete")]
                                       ELSE Failed(ops[i])]
          /\ ev' = OrchEv("encoded", i, ok)
    /\ UNCHANGED <<outsideOrch, provider, providers, initRun, orchPendingMask>>

OrchNext ==
    \/ SamSegment
    \/ SamCapturePreview
    \/ SamInitializeProvider
    \/ SamDisposeProvider
    \/ ProbeDone
    \/ ProviderInitialized
    \/ \E i \in 1..Len(ops) : ResumeOp(i)
    \/ \E i \in 1..Len(ops) : SegmentRendered(i)
    \/ \E i \in 1..Len(ops) : CaptureRendered(i)
    \/ \E i \in 1..Len(ops) : SegmentSettled(i)
    \/ \E i \in 1..Len(ops) : EncodeSettled(i)

OrchSpec == OrchInit /\ [][OrchNext]_vars

(***************************************************************************)
(* CreateSpec: one SAM2Core instance.  initialize() loads the runtime and  *)
(* runs createSessions; dispose() may be called by another handler of the  *)
(* worker while initialize() is suspended.  A session is the execution     *)
(* provider it was created with.                                           *)
(***************************************************************************)
\* The step just taken, and whether what it awaited was fulfilled.
CreateEv(type, ok) == [type |-> type, ok |-> ok]

\* "preferredProvider === 'webgpu' ? ['webgpu', 'wasm'] : ['wasm']"
ProvidersToTry(preferredProvider) ==
    IF preferredProvider = "webgpu" THEN <<"webgpu", "wasm">> ELSE <<"wasm">>

\* disposeSessions() up to its first await: release() of the first session held.
DisposeSessionsPc(enc, dec) ==
    IF enc # "none" THEN "releaseEncoder"
    ELSE IF dec # "none" THEN "releaseDecoder"
    ELSE "released"

\* The sessions live once disposeSessions() has called that release().
DisposeSessionsLive(enc, dec, live) ==
    IF enc # "none" THEN live \ {<<"encoder", enc>>}
    ELSE IF dec # "none" THEN live \ {<<"decoder", dec>>}
    ELSE live

\* The for loop of createSessions goes on: the next provider is tried, or none is
\* left and createSessions throws.
NextAttempt(run) ==
    IF run.todo = <<>> THEN [run EXCEPT !.pc = "rejected", !.provider = "none"]
    ELSE [run EXCEPT !.pc = "encoder", !.provider = Head(run.todo), !.todo = Tail(run.todo)]

\* The catch of createSessions: disposeSessions() up to its first await, and the
\* loop going on if there is nothing to release.  The decoder's create is the last
\* step that can throw, so the catch never finds a decoder session to release.
CleanUp(enc, dec) ==
    /\ liveSessions' = DisposeSessionsLive(enc, dec, liveSessions)
    /\ createRun' = IF DisposeSessionsPc(enc, dec) = "released" THEN NextAttempt(createRun)
                    ELSE [createRun EXCEPT !.pc = DisposeSessionsPc(enc, dec)]

CreateInit ==
    /\ ProviderInit(FALSE)
    /\ SessionInit
    /\ DecodeIdle
    /\ CoreIdle
    /\ ServiceIdle
    /\ ProbeIdle
    /\ LoadIdle
    /\ OrchIdle
    /\ CreateIdle
    /\ ApplyIdle
    /\ PickIdle
    /\ CacheIdle
    /\ TransferIdle
    /\ ev = CreateEv("init", TRUE)

\* initialize() up to "await loadOnnxRuntime()"
CoreInitialize ==
    /\ createRun.pc = "idle"
    /\ \E preferredProvider \in {"webgpu", "wasm"} :
          createRun' = [createRun EXCEPT !.pc = "ort",
                                         !.preferredProvider = preferredProvider,
                                         !.todo = ProvidersToTry(preferredProvider)]
    /\ ev' = CreateEv("initialize", TRUE)
    /\ UNCHANGED <<outsideCreate, encoderSession, decoderSession, liveSessions, disposeRun>>

\* loadOnnxRuntime() has settled: createSessions up to the first
\* InferenceSession.create.
OrtLoaded ==
    /\ createRun.pc = "ort"
    /\ \E ok \in BOOLEAN :
          /\ createRun' = IF ok THEN NextAttempt(createRun)
                          ELSE [createRun EXCEPT !.pc = "rejected"]
          /\ ev' = CreateEv("ortLoaded", ok)
    /\ UNCHANGED <<outsideCreate, encoderSession, decoderSession, liveSessions, disposeRun>>

\* InferenceSession.create(encoderData) has settled.
EncoderCreated ==
    /\ createRun.pc = "encoder"
    /\ \E ok \in BOOLEAN :
          /\ IF ok
             THEN /\ encoderSession' = createRun.provider
                  /\ liveSessions' = liveSessions \cup {<<"encoder", createRun.provider>>}
                  /\ createRun' = [createRun EXCEPT !.pc = "decoder"]
             ELSE /\ CleanUp(encoderSession, decoderSession)
                  /\ UNCHANGED encoderSession
          /\ ev' = CreateEv("encoderCreated", ok)
    /\ UNCHANGED <<outsideCreate, decoderSession, disposeRun>>

\* InferenceSession.create(decoderData) has settled: createSessions returns the
\* provider, or cleans up.
DecoderCreated ==
    /\ createRun.pc = "decoder"
    /\ \E ok \in BOOLEAN :
          /\ IF ok
             THEN /\ decoderSession' = createRun.provider
                  /\ liveSessions' = liveSessions \cup {<<"decoder", createRun.provider>>}
                  /\ createRun' = [createRun EXCEPT !.pc = "resolved"]
             ELSE /\ CleanUp(encoderSession, decoderSession)
                  /\ UNCHANGED decoderSession
          /\ ev' = CreateEv("decoderCreated", ok)
    /\ UNCHANGED <<outsideCreate, encoderSession, disposeRun>>

\* In the catch of createSessions, encoderSession.release() has settled; a
\* release() that throws is ignored.
CleanUpEncoderReleased ==
    /\ createRun.pc = "releaseEncoder"
    /\ encoderSession' = "none"
    /\ CleanUp("none", decoderSession)
    /\ \E ok \in BOOLEAN : ev' = CreateEv("cleanedUp", ok)
    /\ UNCHANGED <<outsideCreate, decoderSession, disposeRun>>

\* dispose(): clearAllCaches(), and disposeSessions() up to its first await.  The
\* worker's handleDispose calls it on the instance handleInitialize created,
\* whether or not that handler's initialize() has settled.
CoreDispose ==
    /\ disposeRun = "idle"
    /\ createRun.pc # "idle"
    /\ disposeRun' = DisposeSessionsPc(encoderSession, decoderSession)
    /\ liveSessions' = DisposeSessionsLive(encoderSession, decoderSession, liveSessions)
    /\ createRun' = [createRun EXCEPT
                        !.raced = @ \/ createRun.pc \notin {"resolved", "rejected"}]
    /\ ev' = CreateEv("dispose", TRUE)
    /\ UNCHANGED <<outsideCreate, encoderSession, decoderSession>>

\* In dispose(), encoderSession.release() has settled.
DisposeEncoderReleased ==
    /\ disposeRun = "releaseEncoder"
    /\ encoderSession' = "none"
    /\ disposeRun' = DisposeSessionsPc("none", decoderSession)
    /\ liveSessions' = DisposeSessionsLive("none", decoderSession, liveSessions)
    /\ \E ok \in BOOLEAN : ev' = CreateEv("disposing", ok)
    /\ UNCHANGED <<outsideCreate, decoderSession, createRun>>

\* In dispose(), decoderSession.release() has settled.
DisposeDecoderReleased ==
    /\ disposeRun = "releaseDecoder"
    /\ decoderSession' = "none"
    /\ disposeRun' = "released"
    /\ \E ok \in BOOLEAN : ev' = CreateEv("disposing", ok)
    /\ UNCHANGED <<outsideCreate, encoderSession, liveSessions, createRun>>

CreateNext ==
    \/ CoreInitialize
    \/ OrtLoaded
    \/ EncoderCreated
    \/ DecoderCreated
    \/ CleanUpEncoderReleased
    \/ CoreDispose
    \/ DisposeEncoderReleased
    \/ DisposeDecoderReleased

CreateSpec == CreateInit /\ [][CreateNext]_vars

(***************************************************************************)
(* ApplySpec: applyMaskToSelection, a function of the response and of the  *)
(* options.  The response is either any response a caller may pass, or the *)
(* pending mask of the service: a response of segmentSingleView, made by   *)
(* SAM2Core.decode, applied with the options of applyPendingMask.          *)
(* Probabilities and thresholds are counted in thousandths.                *)
(***************************************************************************)
SelectionOps == {"add", "remove"}

\* The mask of a caller's response: any bytes.
MaskValues == {0, 128, 255}

\* The logits of a caller's response.
ApplyLogitValues == {-1, 0, 1}

Thresholds == {250, 500, 750}

\* "threshold = 0.5", the default of the destructuring.
DefaultThreshold == 500

\* 1 / (1 + Math.exp(-x)), rounded to thousandths.
Sigmoid(x) == CASE x = -1 -> 269 [] x = 0 -> 500 [] x = 1 -> 731

ApplySizes == {<<1, 1>>, <<MaskSize, 1>>}

\* The lengths of a caller's logits for a mask of n pixels.
LogitLengths(n) == {n - 1, n, n + 1}

CallerResponses ==
    UNION {{[width |-> size[1], height |-> size[2], mask |-> m, logits |-> l] :
               m \in SeqsOf(MaskValues, size[1] * size[2]),
               l \in {NoLogits} \cup
                     UNION {{[present |-> TRUE, data |-> q] : q \in SeqsOf(ApplyLogitValues, n)} :
                            n \in LogitLengths(size[1] * size[2])}} :
           size \in ApplySizes}

CallerOptions(response) ==
    {[op |-> op, hasThreshold |-> t # 0, threshold |-> t,
      targetWidth |-> target[1], targetHeight |-> target[2]] :
        op \in SelectionOps, t \in {0} \cup Thresholds,
        target \in {<<0, 0>>, <<response.width, response.height>>,
                    <<2 * response.width, response.height>>}}

\* The response segmentSingleView returns for a result of the worker.
SegmentationResponse(result) ==
    [width |-> result.width, height |-> result.height, mask |-> result.mask,
     logits |-> [present |-> TRUE, data |-> result.logits]]

SegmentResponses ==
    {SegmentationResponse(Decode(r, o[1], o[2])) : r \in DecoderOutputs, o \in OriginalSizes}

\* The options of applyPendingMask: canvasWidth and canvasHeight are the size of
\* the request's image, which is the size of the response.
PendingMaskOptions(response) ==
    [op |-> DetermineSelectionOp, hasThreshold |-> TRUE, threshold |-> DefaultThreshold,
     targetWidth |-> response.width, targetHeight |-> response.height]

UseMask(logits, threshold, mask) == mask

\* "maskData[i] = prob >= threshold ? 255 : 0" over the logits, or the mask itself
MaskData(logits, threshold, mask) ==
    IF logits.present
    THEN [i \in 1..Len(logits.data) |->
             IF Sigmoid(logits.data[i]) >= threshold THEN 255 ELSE 0]
    ELSE mask

\* ctx.createImageData(width, height) filled from maskData: one value per pixel;
\* a write past the end of the image data is dropped.
MaskImage(maskData, width, height) ==
    [i \in 1..(width * height) |-> IF i <= Len(maskData) THEN maskData[i] ELSE 0]

\* putImageData(imageData, 0, 0) on a canvas of cw x ch
PutImageData(image, width, height, cw, ch) ==
    [i \in 1..(cw * ch) |->
        LET x == (i - 1) % cw
            y == (i - 1) \div cw
        IN  IF x < width /\ y < height THEN image[y * width + x + 1] ELSE 0]

\* drawImage(tempCanvas, 0, 0, targetWidth, targetHeight) with smoothing off: each
\* target pixel takes the source pixel under it.
DrawImage(image, width, height, targetWidth, targetHeight) ==
    [i \in 1..(targetWidth * targetHeight) |->
        LET x == (i - 1) % targetWidth
            y == (i - 1) \div targetWidth
        IN  image[((y * height) \div targetHeight) * width
                  + ((x * width) \div targetWidth) + 1]]

\* applyMaskToSelection(response, options, events) with a 2D context: the canvas
\* and the events fired.
ApplyMaskToSelection(response, options) ==
    LET width == response.width
        height == response.height
        threshold == IF options.hasThreshold THEN options.threshold ELSE DefaultThreshold
        targetWidth == options.targetWidth
        targetHeight == options.targetHeight
        cw == IF targetWidth # 0 THEN targetWidth ELSE width
        ch == IF targetHeight # 0 THEN targetHeight ELSE height
        imageData == MaskImage(MaskData(response.logits, threshold, response.mask),
                               width, height)
    IN  [canvas |->
            [width |-> cw, height |-> ch,
             data |-> IF /\ targetWidth # 0
                         /\ targetHeight # 0
                         /\ (targetWidth # width \/ targetHeight # height)
                      THEN DrawImage(imageData, width, height, targetWidth, targetHeight)
                      ELSE PutImageData(imageData, width, height, cw, ch)],
         fired |-> <<Fired("select.byMask", options.op)>>]

ApplyEv(type) == [type |-> type]

\* applyMaskToSelection is about to be called.
ApplyInit ==
    /\ ProviderInit(FALSE)
    /\ SessionInit
    /\ DecodeIdle
    /\ CoreIdle
    /\ ServiceIdle
    /\ ProbeIdle
    /\ LoadIdle
    /\ OrchIdle
    /\ CreateIdle
    /\ PickIdle
    /\ CacheIdle
    /\ TransferIdle
    /\ \/ /\ maskSource = "caller"
          /\ maskResponse \in CallerResponses
          /\ maskOptions \in CallerOptions(maskResponse)
       \/ /\ maskSource = "segmentSingleView"
          /\ maskResponse \in SegmentResponses
          /\ maskOptions = PendingMaskOptions(maskResponse)
    /\ selection = NoCanvas
    /\ applyFired = <<>>
    /\ ev = ApplyEv("call")

\* The call returns.
ApplyReturn ==
    /\ ev.type = "call"
    /\ LET result == ApplyMaskToSelection(maskResponse, maskOptions)
       IN  /\ selection' = result.canvas
           /\ applyFired' = result.fired
    /\ ev' = ApplyEv("returned")
    /\ UNCHANGED <<outsideApply, maskSource, maskResponse, maskOptions>>

\* "if (!ctx) throw": no canvas is passed on and nothing is fired.
ApplyThrows ==
    /\ ev.type = "call"
    /\ ev' = ApplyEv("threw")
    /\ UNCHANGED <<outsideApply, applyVars>>

ApplyNext ==
    \/ ApplyReturn
    \/ ApplyThrows

ApplySpec == ApplyInit /\ [][ApplyNext]_vars

(***************************************************************************)
(* PickSpec: the mask SegmentationService holds for preview and the mask   *)
(* selector of SamPanel.  A segment request completes with a response that *)
(* holds candidates; the user picks candidates in the panel, and applies   *)
(* or cancels the pending mask.  events.fire calls its listeners before it *)
(* returns, so a listener's work belongs to the step that fires the event. *)
(* A response is told by its logits, which decide what is applied.         *)
(***************************************************************************)
PickEv(type, index) == [type |-> type, index |-> index]

PickInit ==
    /\ ProviderInit(FALSE)
    /\ SessionInit
    /\ DecodeIdle
    /\ CoreIdle
    /\ ServiceIdle
    /\ ProbeIdle
    /\ LoadIdle
    /\ OrchIdle
    /\ CreateIdle
    /\ ApplyIdle
    /\ PickIdle
    /\ CacheIdle
    /\ TransferIdle
    /\ ev = PickEv("init", 0)

\* handleSegmentRequest after segmentSingleView resolved with a mask: pendingMask is
\* set and sam.maskReady fired, on which the panel takes the candidates.
PickSegmented(r) ==
    /\ heldResponse' = r
    /\ panelCandidates' = IF Len(r.allMasks) > 0 THEN r.allMasks ELSE panelCandidates
    /\ panelIndex' = IF Len(r.allMasks) > 0 THEN r.selectedMaskIndex ELSE panelIndex
    /\ lastPicked' = -1
    /\ ev' = PickEv("sam.maskReady", r.selectedMaskIndex)
    /\ UNCHANGED <<outsidePick, appliedLogits>>

\* sam.maskSelected has no listener: the pending mask stays as it is.
MaskSelected(held, index) == held

\* SamPanel.selectMaskCandidate(index)
PickCandidate(index) ==
    /\ ~(index < 0 \/ index >= Len(panelCandidates))
    /\ index # panelIndex
    /\ panelIndex' = index
    /\ heldResponse' = MaskSelected(heldResponse, index)
    /\ lastPicked' = index
    /\ ev' = PickEv("sam.maskSelected", index)
    /\ UNCHANGED <<outsidePick, panelCandidates, appliedLogits>>

\* sam.applyMask: applyPendingMask(), and the panel's listener of sam.maskApplied
PickApply ==
    /\ IF heldResponse = NoHeld
       THEN UNCHANGED <<heldResponse, panelCandidates, appliedLogits>>
       ELSE /\ appliedLogits' = heldResponse.logits
            /\ heldResponse' = NoHeld
            /\ panelCandidates' = <<>>
    /\ ev' = PickEv("sam.applyMask", 0)
    /\ UNCHANGED <<outsidePick, panelIndex, lastPicked>>

\* sam.cancelMask: cancelPendingMask(), and the panel's listener of sam.maskCancelled
PickCancel ==
    /\ IF heldResponse = NoHeld
       THEN UNCHANGED <<heldResponse, panelCandidates>>
       ELSE /\ heldResponse' = NoHeld
            /\ panelCandidates' = <<>>
    /\ ev' = PickEv("sam.cancelMask", 0)
    /\ UNCHANGED <<outsidePick, panelIndex, lastPicked, appliedLogits>>

PickNext ==
    \/ \E r \in SegmentResults : PickSegmented(r)
    \/ \E index \in 0..(NumCandidates - 1) : PickCandidate(index)
    \/ PickApply
    \/ PickCancel

PickSpec == PickInit /\ [][PickNext]_vars

(***************************************************************************)
(* CacheSpec: the provider's session (SessionSpec) together with the       *)
(* embeddings cache of the engine in its worker (CoreSpec).  The provider  *)
(* is ready; startNewSession, clearPreviousMask and the sending of a       *)
(* 'segment' request are the actions of SessionSpec; the worker answers an *)
(* 'encode' or a 'segment' request by running the engine, which caches the *)
(* embeddings of the request's imageId.  The provider sends no             *)
(* 'clearCache' request.                                                   *)
(***************************************************************************)
CacheInit ==
    /\ ProviderInit(FALSE)
    /\ SessionInit
    /\ OutsideSessionIdle
    /\ ev = SessionEv("init", 0)

\* What encodeImage(imageId) does to the engine: nothing on a cache hit, else one
\* encoder run, whose image_embed is cached if the run succeeds.
EncodeImage(imageId, ok) ==
    LET miss == ~CacheHit(imageId) IN
    /\ miss => encoderRuns < MaxRuns
    /\ encoderRuns' = IF miss THEN encoderRuns + 1 ELSE encoderRuns
    /\ imageEmbeddings' = IF miss /\ ok
                          THEN [imageEmbeddings EXCEPT ![imageId] = encoderRuns + 1]
                          ELSE imageEmbeddings
    /\ encodedSince' = IF miss /\ ok THEN [encodedSince EXCEPT ![imageId] = TRUE]
                       ELSE encodedSince
    /\ UNCHANGED <<coreReady, coreTasks>>

\* preEncodeImage in state ready, up to the 'encode' request.
PreEncodeImageRequest ==
    /\ state = "ready"
    /\ encodeMessage = 0
    /\ \E imageId \in ImageIds :
          /\ UseSession(imageId)
          /\ encodeMessage' = imageId
          /\ ev' = SessionEv("encode", imageId)
    /\ UNCHANGED <<state, lifecycleRest, previousMaskLogits, segmentMessage,
                   allMaskCandidates, selectedMaskIndex, sessionLogits, candidatesImageId,
                   decodeVars, coreVars, serviceVars, probeVars, loadVars, orchVars,
                   createVars, applyVars, pickVars,
                   transferVars>>

\* The worker's handleEncode answers 'encoded' or 'error'; preEncodeImage returns
\* or throws.
EncodeAnswered(ok) ==
    /\ encodeMessage # 0
    /\ EncodeImage(encodeMessage, ok)
    /\ encodeMessage' = 0
    /\ ev' = SessionEv(IF ok THEN "encoded" ELSE "error", encodeMessage)
    /\ UNCHANGED <<lifecycleVars, sessionVars, decodeVars, serviceVars, probeVars,
                   loadVars, orchVars, createVars, applyVars, pickVars,
                   transferVars>>

\* The worker's handleSegment answers 'segmented': the engine has encoded and
\* decoded; segmentSingleView stores the logits and returns.
SegmentAnswered(r) ==
    /\ state = "processing"
    /\ segmentMessage # NoMessage
    /\ EncodeImage(segmentMessage.imageId, TRUE)
    /\ previousMaskLogits' =
          [previousMaskLogits EXCEPT ![segmentMessage.imageId] = BestMaskLogits(r.logits)]
    /\ allMaskCandidates' = r.allMasks
    /\ selectedMaskIndex' = r.selectedMaskIndex
    /\ candidatesImageId' = segmentMessage.imageId
    /\ sessionLogits' = [sessionLogits EXCEPT ![segmentMessage.imageId] = r.logits]
    /\ ev' = [SessionEv("segmented", segmentMessage.imageId) EXCEPT
                  !.previousMask = segmentMessage.previousMask,
                  !.feeds = DecoderFeeds(segmentMessage.previousMask),
                  !.logits = r.logits]
    /\ state' = "ready"
    /\ segmentMessage' = NoMessage
    /\ UNCHANGED <<lifecycleRest, currentImageId, imageIdCounter, usedImageIds,
                   decodeVars, serviceVars, extraVars>>

\* The worker's handleSegment answers 'error', the engine having failed to encode
\* or, after encoding, to decode: segmentSingleView sets the state back to ready
\* and rethrows.
SegmentRefused(cached) ==
    /\ state = "processing"
    /\ segmentMessage # NoMessage
    /\ EncodeImage(segmentMessage.imageId, cached)
    /\ ev' = SessionEv("error", segmentMessage.imageId)
    /\ state' = "ready"
    /\ segmentMessage' = NoMessage
    /\ UNCHANGED <<lifecycleRest, currentImageId, imageIdCounter, usedImageIds,
                   previousMaskLogits, allMaskCandidates, selectedMaskIndex,
                   candidatesImageId, sessionLogits, decodeVars, serviceVars, extraVars>>

CacheNext ==
    \/ StartNewSession
    \/ ClearPreviousMask
    \/ PreEncodeImageRequest
    \/ \E ok \in BOOLEAN : EncodeAnswered(ok)
    \/ SegmentSingleViewSend
    \/ \E r \in SegmentResults : SegmentAnswered(r)
    \/ \E cached \in BOOLEAN : SegmentRefused(cached)

CacheSpec == CacheInit /\ [][CacheNext]_vars

(***************************************************************************)
(* TransferSpec: the ArrayBuffers of the 'encode' and 'segment' requests   *)
(* and of their responses.  postMessage(message, transferList) detaches    *)
(* the listed buffers from the sender and attaches them to the receiver;   *)
(* a list that names a buffer twice, or a detached one, makes postMessage  *)
(* throw.  One session; the provider awaits one request at a time.         *)
(***************************************************************************)
TransferEv(type, thrown) == [type |-> type, thrown |-> thrown]

\* The buffers of seq, 0 standing for a field that is undefined.
BuffersOf(seq) == {seq[i] : i \in 1..Len(seq)} \ {0}

\* The heap after n buffers more have been allocated by side.
Allocated(h, n, side) == h \o [i \in 1..n |-> side]

\* The heap after postMessage has transferred the buffers of list to side.
Transferred(h, list, side) ==
    [b \in 1..Len(h) |-> IF b \in BuffersOf(list) THEN side ELSE h[b]]

\* postMessage accepts the transfer list: it names no buffer twice and only
\* buffers attached to the sender.
Transferable(h, list, sender) ==
    /\ \A i, j \in 1..Len(list) : list[i] = list[j] => i = j
    /\ \A i \in 1..Len(list) : h[list[i]] = sender

\* The buffers among bs that side reads while they are detached from it.
Misused(h, bs, side) == {b \in bs : b # 0 /\ h[b] # side}

PreviousMaskShared(stored, fresh) == stored

\* "previousMask ? new Float32Array(previousMask) : undefined": the request's
\* previous mask, fresh being the next buffer to be allocated.
PreviousMaskCopy(stored, fresh) == IF stored # 0 THEN fresh ELSE 0

TransferInit ==
    /\ ProviderInit(FALSE)
    /\ SessionInit
    /\ DecodeIdle
    /\ CoreIdle
    /\ ServiceIdle
    /\ ProbeIdle
    /\ LoadIdle
    /\ OrchIdle
    /\ CreateIdle
    /\ ApplyIdle
    /\ PickIdle
    /\ CacheIdle
    /\ TransferIdle
    /\ ev = TransferEv("init", FALSE)

\* sendWorkerMessage(message): the transfer list is the image's buffer and the
\* previous mask's; image and previousMask are the request's fields (0: none).
PostRequest(type, h, image, previousMask) ==
    LET list == <<image>> \o (IF previousMask # 0 THEN <<previousMask>> ELSE <<>>) IN
    IF Transferable(h, list, "main")
    THEN /\ heap' = Transferred(h, list, "worker")
         /\ channel' = [to |-> "worker", type |-> type,
                        buffers |-> <<image, previousMask>>, transfer |-> list]
         /\ ev' = TransferEv(type, FALSE)
    ELSE /\ heap' = h
         /\ channel' = NoChannel
         /\ ev' = TransferEv(type, TRUE)

\* segmentSingleView up to "await this.sendWorkerMessage": the request's image is
\* a buffer of the caller, the previous mask a copy of the stored one.
TransferSegment ==
    /\ channel.to = "none"
    /\ nRequests < MaxRequests
    /\ nRequests' = nRequests + 1
    /\ LET image == Len(heap) + 1
           previousMask == PreviousMaskCopy(storedMask, Len(heap) + 2)
           h == Allocated(heap, IF previousMask > Len(heap) + 1 THEN 2 ELSE 1, "main")
       IN  /\ misuse' = misuse \cup Misused(heap, {storedMask}, "main")
           /\ PostRequest("segment", h, image, previousMask)
    /\ UNCHANGED <<outsideTransfer, storedMask>>

\* preEncodeImage up to "await this.sendWorkerMessage"
TransferEncode ==
    /\ channel.to = "none"
    /\ nRequests < MaxRequests
    /\ nRequests' = nRequests + 1
    /\ PostRequest("encode", Allocated(heap, 1, "main"), Len(heap) + 1, 0)
    /\ UNCHANGED <<outsideTransfer, storedMask, misuse>>

\* handleSegment's response for a result with K candidates: mask, logits, and each
\* candidate's mask and logits, all of them arrays decode has just allocated.
SegmentedBuffers(first, K) == [i \in 1..(2 + 2 * K) |-> first + i - 1]

\* The worker handles the request: handleEncode, or handleSegment, whose response
\* transfers every buffer of the result; a failure is answered by postError.
WorkerAnswers(K, ok) ==
    /\ channel.to = "worker"
    /\ misuse' = misuse \cup Misused(heap, BuffersOf(channel.buffers), "worker")
    /\ IF ~ok
       THEN /\ channel' = [NoChannel EXCEPT !.to = "main", !.type = "error"]
            /\ ev' = TransferEv("error", FALSE)
            /\ UNCHANGED heap
       ELSE IF channel.type = "encode"
       THEN /\ channel' = [NoChannel EXCEPT !.to = "main", !.type = "encoded"]
            /\ ev' = TransferEv("encoded", FALSE)
            /\ UNCHANGED heap
       ELSE LET list == SegmentedBuffers(Len(heap) + 1, K)
                h == Allocated(heap, Len(list), "worker")
            IN  IF Transferable(h, list, "worker")
                THEN /\ heap' = Transferred(h, list, "main")
                     /\ channel' = [to |-> "main", type |-> "segmented",
                                    buffers |-> list, transfer |-> list]
                     /\ ev' = TransferEv("segmented", FALSE)
                ELSE /\ heap' = h
                     /\ channel' = [NoChannel EXCEPT !.to = "main", !.type = "error"]
                     /\ ev' = TransferEv("error", TRUE)
    /\ UNCHANGED <<outsideTransfer, storedMask, nRequests>>

\* handleWorkerMessage settles the request; segmentSingleView copies the
\* response's logits into a new array, which it stores, and returns the response.
TransferSettled ==
    /\ channel.to = "main"
    /\ IF channel.type = "segmented"
       THEN /\ misuse' = misuse \cup Misused(heap, BuffersOf(channel.buffers), "main")
            /\ heap' = Allocated(heap, 1, "main")
            /\ storedMask' = Len(heap) + 1
       ELSE UNCHANGED <<misuse, heap, storedMask>>
    /\ channel' = NoChannel
    /\ ev' = TransferEv("settled", FALSE)
    /\ UNCHANGED <<outsideTransfer, nRequests>>

\* startNewSession(): previousMaskLogits.clear()
TransferNewSession ==
    /\ storedMask # 0
    /\ storedMask' = 0
    /\ ev' = TransferEv("startNewSession", FALSE)
    /\ UNCHANGED <<outsideTransfer, heap, channel, misuse, nRequests>>

TransferNext ==
    \/ TransferSegment
    \/ TransferEncode
    \/ \E K \in 1..NumCandidates, ok \in BOOLEAN : WorkerAnswers(K, ok)
    \/ TransferSettled
    \/ TransferNewSession

TransferSpec == TransferInit /\ [][TransferNext]_vars

(***************************************************************************)
(* Properties.                                                             *)
(***************************************************************************)
Alive == {w \in Workers : wstatus[w] = "alive"}

Increasing(box) == \A i, j \in 1..Len(box) : i < j => box[i].id < box[j].id

\* C1: as long as abort() has rejected nothing, the pending requests are the
\* most recently submitted ones, in submission order and without a gap, and each
\* worker's inbox holds its requests in submission order; a non-debug worker
\* message always finds a pending request, removes the oldest one and continues
\* the call that owns it and no other call (so the i-th such message settles the
\* i-th request submitted); a debug message leaves the pending requests and every
\* call as they are.
C1_FifoDispatchAndMatching ==
    [][ rejected' = {} =>
          /\ \A i \in 1..Len(pendingRequests') :
                pendingRequests'[i].id = requestCounter' - Len(pendingRequests') + i
          /\ \A w \in Workers : Increasing(inbox'[w])
          /\ ev'.type = "msg" =>
                /\ pendingRequests # <<>>
                /\ \A i \in 1..(Len(pendingRequests) - 1) :
                      pendingRequests'[i] = pendingRequests[i + 1]
                /\ ev'.op = calls[pendingRequests[1].call].op
                /\ \A c \in Calls : c # pendingRequests[1].call => calls'[c] = calls[c]
          /\ ev'.type = "debug" => pendingRequests' = pendingRequests /\ calls' = calls
      ]_vars

\* Two requests were pending, no abort() had happened, and a worker message has
\* settled the older one (the encode) and left the younger one (the segment).
C1_OldestOfTwoSettled ==
    /\ rejected = {}
    /\ ev.type = "msg" /\ ev.op = "encode" /\ ev.out = "resolved"
    /\ Len(pendingRequests) = 1
    /\ pendingRequests[1].kind = "segment"
    /\ pendingRequests[1].id = requestCounter

\* C2: the worker executes requests serially: the handler of one request has
\* finished and posted its response before the handler of the next one starts,
\* so that a worker never has more than one handler in progress.
C2_WorkerSerial == \A w \in Workers : Len(active[w]) <= 1

\* C3: abort() leaves no request pending, releases with a rejection every call
\* that owned a pending request, and leaves the worker, its status and its inbox
\* as they are; the rejection such a call receives carries the code ABORTED (a
\* preEncodeImage or segmentSingleView call rejects with it, an initialize() call
\* too); a request submitted afterwards goes to the worker the provider holds.
C3_AbortRejectsAllPending ==
    [][ /\ ev'.type = "abort" =>
            /\ pendingRequests' = <<>>
            /\ \A i \in 1..Len(pendingRequests) : calls'[pendingRequests[i].call].rej
            /\ worker' = worker /\ wstatus' = wstatus /\ inbox' = inbox
        /\ (ev'.type = "resume" /\ ev'.op # "dispose") => ev'.out = "ABORTED"
        /\ (ev'.type = "call" /\ ev'.out = "none" /\ worker # 0 /\ state = "ready") =>
            /\ Len(inbox'[worker]) = Len(inbox[worker]) + 1
            /\ inbox'[worker][Len(inbox'[worker])].id = requestCounter'
      ]_vars

\* abort() had rejected a request of the only worker there has been, and a request
\* submitted after it has been resolved by the response that worker made for it.
C3_ResolvedAfterAbort ==
    /\ rejected # {}
    /\ nWorkers = 1 /\ worker = 1 /\ wstatus[1] = "alive"
    /\ ev.type = "msg" /\ ev.resp = "own" /\ ev.out = "resolved"
    /\ ev.op \in {"segment", "encode"}

\* C4: a response the worker produced for a request that abort() had rejected
\* is dropped: it settles no request.
C4_StaleResponseDropped == (ev.type = "msg" /\ ev.resp = "stale") => ev.op = "none"

\* C5: segmentSingleView called in state ready puts the provider in processing
\* when it suspends on its worker request; whenever such a call settles, resolved
\* or rejected, the step that settles it leaves the state ready; and the state is
\* processing only while some segmentSingleView call awaits its worker request.
C5_SegmentReadyProcessingReady ==
    [][ /\ (ev'.op = "segment" /\ ev'.from = "ready" /\ ev'.type = "call"
              /\ ev'.out = "none") => state' = "processing"
        /\ (ev'.op = "segment" /\ ev'.from = "ready" /\ ev'.out # "none") =>
              state' = "ready"
        /\ state' = "processing" =>
              \E c \in Calls : calls'[c].op = "segment" /\ calls'[c].pc = "await"
      ]_vars

\* A segmentSingleView call made in state ready has been rejected by abort(), and
\* the state is ready again.
C5_ReadyAfterAbortedSegment ==
    /\ ev.type = "resume" /\ ev.op = "segment" /\ ev.from = "ready"
    /\ ev.out = "ABORTED"
    /\ state = "ready"


\* C6: once dispose() has resolved and no call is in flight any more, no call
\* having been made since, the state is idle and the provider holds no live worker.
C6_DisposedIsIdle ==
    (sinceDispose = "resolved" /\ InFlight = {}) =>
        /\ state = "idle"
        /\ worker = 0 \/ wstatus[worker] # "alive"

\* C7 as stated: initialize() called in state ready returns the current provider
\* and changes nothing; called while another initialize() is in flight it shares
\* that operation, so it does not fail.
C7_InitializeSharesInFlight ==
    [][ (ev'.type = "call" /\ ev'.op = "initialize") =>
          /\ state = "ready" =>
                /\ ev'.out = "resolved" /\ ev'.val = currentProvider
                /\ UNCHANGED <<providerVars, calls, nCalls, workerVars>>
          /\ state \in {"loading-models", "initializing"} => ev'.out # "Error"
      ]_vars

\* C7 amended: initialize() called in state ready returns the current provider
\* with no state transition, no model load and no new worker; called in state
\* loading-models or initializing it rejects at once ('Initialization already in
\* progress'), likewise with no state transition, no model load and no new
\* worker, and leaves the initialize() in flight as it is.
C7_InitializeReadyOrRejects ==
    [][ (ev'.type = "call" /\ ev'.op = "initialize"
            /\ state \in {"ready", "loading-models", "initializing"}) =>
          /\ UNCHANGED <<providerVars, calls, nCalls, workerVars>>
          /\ IF state = "ready"
             THEN ev'.out = "resolved" /\ ev'.val = currentProvider
             ELSE ev'.out = "Error"
      ]_vars

\* initialize() has been called while another one awaited the worker's
\* 'initialize' response, and has been rejected.
C7_RejectedWhileInitializing ==
    /\ ev.type = "call" /\ ev.op = "initialize" /\ ev.from = "initializing"
    /\ ev.out = "Error"
    /\ state = "initializing"
    /\ \E c \in Calls : calls[c].op = "initialize" /\ calls[c].pc = "initializing"

\* C8: a step that settles an initialize() call leaves the state ready when the
\* call resolves and error when it rejects, whatever made it fail; initialize()
\* called in state error is accepted and puts the state in loading-models; when
\* its load ends well the state becomes initializing and a new worker is sent
\* 'initialize'.
C8_FailureThenReinitialize ==
    [][ /\ \A c \in Calls :
              (calls[c].op = "initialize" /\ calls'[c] = FreeCall) =>
                  /\ ev'.op = "initialize" /\ ev'.out # "none"
                  /\ state' = IF ev'.out = "resolved" THEN "ready" ELSE "error"
        /\ (ev'.type = "call" /\ ev'.op = "initialize" /\ state = "error") =>
              /\ ev'.out = "none"
              /\ state' = "loading-models"
        /\ \A c \in Calls :
              (calls[c].op = "initialize" /\ calls[c].pc = "loading"
                  /\ calls'[c].pc = "initializing") =>
                  /\ state' = "initializing"
                  /\ worker' \notin Alive /\ wstatus'[worker'] = "alive"
                  /\ inbox'[worker'] = <<[id |-> requestCounter', kind |-> "initialize"]>>
      ]_vars

\* An initialize() called in state error has been resolved by the 'initialized'
\* response to its own request, and the state is ready.
C8_ReadyAfterError ==
    /\ ev.type = "msg" /\ ev.op = "initialize" /\ ev.from = "error"
    /\ ev.out = "resolved" /\ ev.resp = "own"
    /\ state = "ready"

\* C9: an initialize() call that abort() has reached (its signal aborted or its
\* worker request rejected) rejects with ABORTED; and an initialize() call that
\* resolves leaves the provider holding a worker whose engine is initialized.
C9_AbortedInitializeRejects ==
    [][ /\ \A c \in Calls :
              (calls[c].op = "initialize" /\ (calls[c].sig \/ calls[c].rej)
                  /\ calls'[c] = FreeCall) => ev'.out = "ABORTED"
        /\ (ev'.op = "initialize" /\ ev'.out = "resolved" /\ ev'.type = "msg") =>
              worker' # 0 /\ sam2'[worker'] = "ready"
      ]_vars

\* C10: when an initialize() fails after it created the worker, the provider
\* holds no worker afterwards and that worker is not alive; and when an
\* initialize() accepted in state idle or error (the states in which a provider
\* driven by initialize, abort and dispose alone accepts one) creates its worker,
\* no other worker of the provider is alive.
C10_PartialInitTornDown ==
    [][ /\ \A c \in Calls :
              (calls[c].pc = "initializing" /\ calls'[c] = FreeCall /\ state' = "error") =>
                  worker' = 0 /\ wstatus'[worker] # "alive"
        /\ (ev'.type = "load" /\ ev'.out = "none" /\ ev'.from \in {"idle", "error"}) =>
              Cardinality(Alive') <= 1
      ]_vars

(***************************************************************************)
(* Properties of the segmentation session (SessionSpec).                   *)
(***************************************************************************)

\* C11: when a segment succeeds with selected-mask logits of MaskSize values, the
\* provider stores exactly those logits under the request's imageId; a segment
\* request carries the logits of the session's last successful response as
\* previousMask, and none when the session has had no successful response since
\* its logits were last removed; the decoder is fed the request's previous mask
\* with has_mask_input 1, or zeros with has_mask_input 0 when there is none.
C11_IterativeRefinement ==
    [][ /\ (ev'.type = "segmented" /\ Len(ev'.logits) = MaskSize) =>
              previousMaskLogits'[ev'.imageId] = ev'.logits
        /\ (ev'.type = "segment" /\ Len(sessionLogits[ev'.imageId]) = MaskSize) =>
              ev'.previousMask = sessionLogits[ev'.imageId]
        /\ (ev'.type = "segment" /\ sessionLogits[ev'.imageId] = Undefined) =>
              ev'.previousMask = Undefined
        /\ (ev'.type = "segmented" /\ ev'.previousMask # Undefined) =>
              ev'.feeds = [mask_input |-> ev'.previousMask, has_mask_input |-> 1]
        /\ (ev'.type = "segmented" /\ ev'.previousMask = Undefined) =>
              ev'.feeds.has_mask_input = 0
      ]_vars

\* A second segment of a session has been decoded with the first one's logits,
\* which are not all zero.
C11_RefinedWithPreviousLogits ==
    /\ ev.type = "segmented"
    /\ ev.previousMask # Undefined /\ ev.previousMask # Zeros
    /\ ev.feeds.has_mask_input = 1
    /\ ev.feeds.mask_input = ev.previousMask

\* C12: startNewSession() makes currentImageId a value it never had before and
\* leaves no stored previous-mask logits; and a segment or encode request sent
\* while the session has had no successful response carries the session's imageId
\* and no previous mask.
C12_NewSessionIsFresh ==
    [][ /\ ev'.type = "startNewSession" =>
              /\ currentImageId' # 0
              /\ currentImageId' \notin usedImageIds
              /\ \A i \in ImageIds : previousMaskLogits'[i] = Undefined
        /\ (ev.type = "startNewSession" /\ ev'.type \in {"segment", "encode"}) =>
              ev'.imageId = ev.imageId /\ ev'.previousMask = Undefined
        /\ (ev'.type \in {"segment", "encode"} /\ currentImageId # 0
               /\ sessionLogits[currentImageId] = Undefined) =>
              ev'.imageId = currentImageId /\ ev'.previousMask = Undefined
      ]_vars

\* A segment is sent without previous mask in a session that follows one whose
\* segment succeeded.
C12_FirstSegmentOfSecondSession ==
    /\ ev.type = "segment"
    /\ ev.previousMask = Undefined
    /\ candidatesImageId # 0
    /\ ev.imageId # candidatesImageId

\* C13: a segment request of the session the panel's candidates came from, sent
\* while that session's logits are stored, carries the logits of the candidate
\* selected in the panel.
C13_SelectedCandidateIsPreviousMask ==
    [][ (/\ ev'.type = "segment"
         /\ ev'.imageId = candidatesImageId
         /\ sessionLogits[ev'.imageId] # Undefined
         /\ Len(allMaskCandidates[selectedMaskIndex + 1]) = MaskSize) =>
            ev'.previousMask = allMaskCandidates[selectedMaskIndex + 1]
      ]_vars

(***************************************************************************)
(* Properties of decode (DecodeSpec).                                      *)
(***************************************************************************)
NumPlanes == decoderResults.masks.dims[2]

\* The logits of plane k (counted from 0) of the mask tensor.
PlaneLogits(k) == SubSeq(decoderResults.masks.data, k * MaskSize + 1, (k + 1) * MaskSize)

\* C14: what decode returns has a selectedMaskIndex that is an index of allMasks,
\* the mask and the logits of that candidate as its mask and logits, a mask of
\* width * height bytes for the original width and height, and mask bytes that
\* are 0 or 255.
C14_ResultIsSelectedCandidate ==
    ev.type = "decoded" =>
        /\ 0 <= decodeResult.selectedMaskIndex
        /\ decodeResult.selectedMaskIndex < Len(decodeResult.allMasks)
        /\ decodeResult.mask = decodeResult.allMasks[decodeResult.selectedMaskIndex + 1].mask
        /\ decodeResult.logits = decodeResult.allMasks[decodeResult.selectedMaskIndex + 1].logits
        /\ decodeResult.width = original[1] /\ decodeResult.height = original[2]
        /\ Len(decodeResult.mask) = original[1] * original[2]
        /\ \A i \in 1..Len(decodeResult.mask) : decodeResult.mask[i] \in {0, 255}

\* decode has returned a candidate other than the first, resized to a larger
\* image, with pixels inside and outside the mask.
C14_LaterCandidateResized ==
    /\ ev.type = "decoded"
    /\ decodeResult.selectedMaskIndex > 0
    /\ Len(decodeResult.mask) > MaskSize
    /\ \E i, j \in 1..Len(decodeResult.mask) :
          decodeResult.mask[i] = 0 /\ decodeResult.mask[j] = 255

\* C15: with more than one IoU score, selectedMaskIndex is the index of a maximal
\* score and every score before it is smaller; with IoU predictions absent or a
\* single score, selectedMaskIndex is 0.
C15_ArgMaxSmallestIndex ==
    ev.type = "decoded" =>
        LET iou == decoderResults.iou_predictions
            sel == decodeResult.selectedMaskIndex
        IN  IF iou.present /\ Len(iou.data) > 1
            THEN /\ sel \in 0..(Len(iou.data) - 1)
                 /\ \A j \in 1..Len(iou.data) : iou.data[j] <= iou.data[sel + 1]
                 /\ \A j \in 1..sel : iou.data[j] < iou.data[sel + 1]
            ELSE sel = 0

\* The maximal IoU score occurs twice, after a smaller one, and the first of the
\* two is selected.
C15_TieAfterSmaller ==
    /\ ev.type = "decoded"
    /\ decodeResult.selectedMaskIndex = 1
    /\ Len(decoderResults.iou_predictions.data) = 3
    /\ decoderResults.iou_predictions.data[2] = decoderResults.iou_predictions.data[3]

\* C16: decode returns one candidate per plane of the mask tensor, candidate k
\* (counted from 0) with index k, the logits of plane k and the mask made of plane
\* k; with IoU predictions absent every candidate has the score 1.0.
C16_OneCandidatePerPlane ==
    ev.type = "decoded" =>
        /\ Len(decodeResult.allMasks) = NumPlanes
        /\ \A k \in 0..(Len(decodeResult.allMasks) - 1) :
              /\ decodeResult.allMasks[k + 1].index = k
              /\ decodeResult.allMasks[k + 1].logits = PlaneLogits(k)
              /\ decodeResult.allMasks[k + 1].mask =
                    ResizeMask([i \in 1..MaskSize |->
                                   IF PlaneLogits(k)[i] > 0 THEN 255 ELSE 0],
                               MaskSize, 1, original[1], original[2])
              /\ ~decoderResults.iou_predictions.present =>
                    decodeResult.allMasks[k + 1].iouScore = FullScore

(***************************************************************************)
(* Properties of the engine's cache (CoreSpec).                            *)
(***************************************************************************)
\* An 'encode' request for imageId is being handled: its encoder run has not finished.
EncodePending(imageId) ==
    \E c \in Calls : /\ coreTasks[c].op = "encode"
                     /\ coreTasks[c].pc = "encoding"
                     /\ coreTasks[c].imageId = imageId

\* C17: an encodeImage call (from an 'encode' or inside a 'segment') for an imageId
\* whose embeddings are cached, or for which an 'encode' request is still being
\* handled, starts no encoder run and leaves the cached embeddings as they are;
\* with the embeddings cached it returns 0.
C17_EncodeIdempotent ==
    [][ (/\ ev'.type \in {"encode", "segment"}
         /\ ev'.error = "none"
         /\ (CacheHit(ev'.imageId) \/ EncodePending(ev'.imageId))) =>
            /\ encoderRuns' = encoderRuns
            /\ imageEmbeddings' = imageEmbeddings
            /\ CacheHit(ev'.imageId) => ev'.encodeTime = "zero"
      ]_vars

\* C18 as stated: a decode call for an imageId without cached embeddings fails
\* with the not-encoded error, starts no run and changes no cache.
C18_DecodeFailsNotEncoded ==
    [][ (ev'.type = "decode" /\ imageEmbeddings[ev'.imageId] = 0) =>
            /\ ev'.error = "NotEncoded"
            /\ ~ev'.decoderRun
            /\ UNCHANGED coreVars
      ]_vars

\* C18: a decode call for an imageId without cached embeddings fails, with the
\* not-encoded error on an initialized engine and the not-initialized error
\* otherwise, starts no run and changes no cache; and whenever a decoder run
\* starts for an imageId, an encoder run for that imageId has completed and its
\* embeddings have not been cleared since.
C18_DecodeNeedsEmbeddings ==
    [][ /\ (ev'.type = "decode" /\ imageEmbeddings[ev'.imageId] = 0) =>
              /\ ev'.error = IF coreReady THEN "NotEncoded" ELSE "NotInitialized"
              /\ ~ev'.decoderRun
              /\ UNCHANGED coreVars
        /\ ev'.decoderRun => encodedSince'[ev'.imageId]
      ]_vars

\* decode has failed with the not-encoded error for an image that was encoded
\* before and cleared.
C18_NotEncodedAfterClear ==
    /\ ev.type = "decode"
    /\ ev.error = "NotEncoded"
    /\ encoderRuns > 0
    /\ \A c \in Calls : coreTasks[c].pc = "free"

(***************************************************************************)
(* Properties of the provider and its worker, continued (Spec).            *)
(***************************************************************************)

\* C19: the call that the provider rejects with SERVER_ERROR on a worker's 'error'
\* response is the call whose request the worker failed to handle, and a
\* segmentSingleView call whose 'segment' request is rejected this way leaves the
\* provider ready.
C19_WorkerFailureRejectsItsCall ==
    [][ (ev'.type = "msg" /\ ev'.out = "SERVER_ERROR") =>
            /\ ev'.resp = "own"
            /\ \A c \in Calls :
                  (calls[c].op = "segment" /\ calls[c].pc = "await"
                      /\ calls'[c] = FreeCall) => state' = "ready"
      ]_vars

(***************************************************************************)
(* Properties of the service's pending mask (ServiceSpec).                 *)
(***************************************************************************)

C21_CancelThenApplyDoesNothing ==
    [][ /\ (ev'.type = "sam.cancelMask" /\ pendingMask # 0) =>
              /\ ev'.fired = <<Fired("sam.maskCancelled", "none")>>
              /\ pendingMask' = 0
        /\ (pendingMask = 0 /\ ev'.type # "segmented") =>
              /\ pendingMask' = 0
              /\ Count(ev'.fired, "select.byMask") = 0
              /\ Count(ev'.fired, "sam.maskApplied") = 0
              /\ nByMask' = nByMask /\ nMaskApplied' = nMaskApplied
      ]_vars

\* A sam.applyMask has done nothing after the mask of the only successful segment
\* was cancelled.
C21_ApplyAfterCancel ==
    /\ ev.type = "sam.applyMask"
    /\ ev.fired = <<>>
    /\ nMaskReady = 1 /\ nMaskCancelled = 1
    /\ nMaskApplied = 0 /\ nByMask = 0
    /\ pendingMask = 0

(***************************************************************************)
(* Properties of the capability probe (ProbeSpec).                         *)
(***************************************************************************)

\* C26: in every result of the probe, isLowVRAM is true exactly when
\* 0 < estimatedVRAM < 4 GiB.
C26_LowVRAMIffBelowThreshold ==
    ev.type = "probed" =>
        (capabilities.isLowVRAM <=>
            (0 < capabilities.estimatedVRAM /\ capabilities.estimatedVRAM < LOW_VRAM_THRESHOLD))

(***************************************************************************)
(* Properties of the model loader (LoaderSpec).                            *)
(***************************************************************************)

\* C27: a failure of the durable cache while reading a model, be it the open or
\* the get request, does not reject the load: the model is then downloaded, and
\* what loadModel resolves with are the downloaded bytes.
C27_CacheReadFailureBypassed ==
    \A m \in ModelKeys :
        cacheRead[m] \in {"openFails", "getFails"} =>
            /\ ~(loader.rejectedAt = "cacheRead" /\ loader.model = m)
            /\ models[m].from \in {"none", "network"}

\* C28: a failure of the durable cache while writing a downloaded model, be it the
\* open or the put request, does not reject the load: loadModel resolves with the
\* downloaded bytes.
C28_CacheWriteFailureBypassed ==
    \A m \in ModelKeys :
        cacheWrite[m] \in {"openFails", "putFails"} =>
            /\ ~(loader.rejectedAt = "cacheWrite" /\ loader.model = m)
            /\ models[m].from = "network"

\* C29: the overall loaded values passed to onProgress never decrease.
C29_ProgressNonDecreasing ==
    \A i \in 1..Len(progress) : \A j \in i..Len(progress) :
        progress[i].loaded <= progress[j].loaded

\* C30: when loadAllModels has resolved, the last call of onProgress had
\* loaded = total.
C30_FinalProgressIsTotal ==
    loader.pc = "resolved" =>
        /\ progress # <<>>
        /\ progress[Len(progress)].loaded = progress[Len(progress)].total

(***************************************************************************)
(* Properties of SegmentationService's handlers (OrchSpec).                *)
(***************************************************************************)

\* C22: a sam.segment with an empty point list does nothing: it fires no event,
\* calls no provider, starts no initialization, and leaves the pending mask, the
\* providers and every other handler invocation as they were.
C22_EmptySegmentIsNoOp ==
    [][ (ev'.type = "sam.segment" /\ ev'.flag) =>
            /\ UNCHANGED <<provider, providers, initRun, orchPendingMask>>
            /\ Len(ops') = Len(ops) + 1
            /\ \A i \in 1..Len(ops) : ops'[i] = ops[i]
            /\ ops'[Len(ops')].log = <<>>
            /\ ops'[Len(ops')].pc = "done"
            /\ ops'[Len(ops')].callee = 0
      ]_vars

C22_EmptySegmentWithMaskPending ==
    /\ ev.type = "sam.segment"
    /\ ev.flag
    /\ orchPendingMask = 1
    /\ ops[2].log = <<>>

\* The events of a log that the ordering of a sam.segment is about.
SegmentEvents(log) ==
    SelectSeq(log, LAMBDA e : e \in {"sam.segmentStart", "sam.maskReady",
                                     "sam.segmentComplete", "sam.segmentError"})

\* C23: the events of a sam.segment with points are sam.segmentStart, then at most
\* one sam.maskReady, then one of sam.segmentComplete and sam.segmentError, with
\* which the handler ends; sam.segmentComplete comes only after sam.maskReady, and
\* in the step that fires it the pending mask is set to this request's response.
C23_SegmentEventsOrdered ==
    [][ \A i \in 1..Len(ops') :
            (ops'[i].kind = "segment" /\ ops'[i].points # 0) =>
                LET events == SegmentEvents(ops'[i].log)
                    ended == events[Len(events)] \in {"sam.segmentComplete", "sam.segmentError"}
                IN
                /\ events \in {<<"sam.segmentStart">>,
                               <<"sam.segmentStart", "sam.maskReady">>,
                               <<"sam.segmentStart", "sam.segmentError">>,
                               <<"sam.segmentStart", "sam.maskReady", "sam.segmentError">>,
                               <<"sam.segmentStart", "sam.maskReady", "sam.segmentComplete">>}
                /\ ops'[i].pc = "done" <=> ended
                /\ (/\ events[Len(events)] = "sam.segmentComplete"
                    /\ i <= Len(ops) => ops[i].pc # "done")
                       => orchPendingMask' = i
      ]_vars

C23_CompleteAndError ==
    /\ Len(ops) = 2
    /\ ops[1].log = <<"sam.segmentStart", "sam.imageCaptured", "sam.maskReady",
                      "sam.segmentComplete">>
    /\ ops[2].kind = "segment"
    /\ ops[2].callee # 0
    /\ ops[2].log = <<"sam.segmentStart", "sam.imageCaptured", "sam.segmentError">>
    /\ orchPendingMask = 1

\* C24: a sam.capturePreview whose image was obtained has started a new session of
\* the provider after render.offscreen and before sam.imageCaptured, then fired
\* sam.encodingStart, and ends with one of sam.encodingComplete and
\* sam.encodingError; its pre-encode uses the imageId of the session it started.
C24_CaptureStartsSession ==
    \A i \in 1..Len(ops) :
        (ops[i].kind = "capture" /\ ops[i].log # <<>>) =>
            LET log == ops[i].log IN
            /\ Len(log) \in {4, 5}
            /\ SubSeq(log, 1, 4) = <<"render.offscreen", "startNewSession",
                                     "sam.imageCaptured", "sam.encodingStart">>
            /\ Len(log) = 5 => log[5] \in {"sam.encodingComplete", "sam.encodingError"}
            /\ ops[i].pc = "done" <=> Len(log) = 5
            /\ ops[i].imageId # NoId => ops[i].imageId = ops[i].session

\* C25: when the probe finds the GPU unavailable, _doInitialize goes on: it fires
\* nothing but sam.capabilities and sam.lowVramWarning, creates the provider and
\* calls its initialize().
C25_ProbeNeverBlocks ==
    [][ (ev'.type = "probed" /\ ~ev'.flag) =>
            /\ initRun'.pc = "initialize"
            /\ provider' # 0
            /\ \A k \in 1..Len(initRun'.log) :
                  initRun'.log[k] \in {"sam.capabilities", "sam.lowVramWarning"}
      ]_vars

\* C31: every sam.modelLoadProgress event (one per call of onProgress, with the
\* stage it was called with) has a stage that is 'encoder', 'decoder' or
\* 'initializing'.
C31_ProgressStageIsKnown ==
    \A i \in 1..Len(progress) : progress[i].stage \in {"encoder", "decoder", "initializing"}

(***************************************************************************)
(* Properties of SAM2Core's session creation (CreateSpec).                 *)
(***************************************************************************)

\* C32: the providers are tried in the order webgpu, wasm (wasm alone when it is
\* preferred); an attempt starts with no session left over from the one before;
\* initialize() resolves with both sessions created with the provider it returns,
\* and rejects with no session held and none left unreleased.
C32_BothSessionsOrNeither ==
    [][ /\ (createRun.pc = "ort" /\ createRun'.pc = "encoder") =>
               /\ createRun'.provider \in {"webgpu", "wasm"}
               /\ createRun'.provider = "wasm" => createRun'.todo = <<>>
        /\ (createRun.pc # "encoder" /\ createRun'.pc = "encoder") =>
               /\ encoderSession' = "none" /\ decoderSession' = "none"
               /\ liveSessions' = {}
        /\ (createRun.pc # "resolved" /\ createRun'.pc = "resolved") =>
               /\ encoderSession' = createRun'.provider
               /\ decoderSession' = createRun'.provider
               /\ liveSessions' = {<<"encoder", createRun'.provider>>,
                                   <<"decoder", createRun'.provider>>}
        /\ (createRun.pc # "rejected" /\ createRun'.pc = "rejected") =>
               /\ encoderSession' = "none" /\ decoderSession' = "none"
               /\ liveSessions' = {}
      ]_vars

\* C33: when applyMaskToSelection returns, pixel i of the image it built at the
\* mask's dimensions is selected (255) exactly when, with logits in the response,
\* the sigmoid of logits[i] reaches the threshold (at the threshold 0.5: exactly
\* when logits[i] >= 0) and, without logits, mask[i] is 255; the canvas holds that
\* image, each canvas pixel taking the value of the image pixel under it; and
\* select.byMask has been fired exactly once, with the given operation.
C33_SelectedIffOverThreshold ==
    ev.type = "returned" =>
        LET threshold == IF maskOptions.hasThreshold THEN maskOptions.threshold ELSE 500
            logits == maskResponse.logits
            Selected(i) ==
                IF logits.present
                THEN /\ i <= Len(logits.data)
                     /\ Sigmoid(logits.data[i]) >= threshold
                ELSE maskResponse.mask[i] = 255
            Under(j) ==
                LET x == (j - 1) % selection.width
                    y == (j - 1) \div selection.width
                IN  ((y * maskResponse.height) \div selection.height) * maskResponse.width
                    + ((x * maskResponse.width) \div selection.width) + 1
        IN  /\ applyFired = <<[name |-> "select.byMask", op |-> maskOptions.op]>>
            /\ Len(selection.data) = selection.width * selection.height
            /\ selection.width \in {maskResponse.width, maskOptions.targetWidth}
            /\ selection.height \in {maskResponse.height, maskOptions.targetHeight}
            /\ \A j \in 1..Len(selection.data) :
                   selection.data[j] = 255 <=> Selected(Under(j))
            /\ (logits.present /\ threshold = 500) =>
                   \A j \in 1..Len(selection.data) :
                       selection.data[j] = 255 <=>
                           /\ Under(j) <= Len(logits.data)
                           /\ logits.data[Under(j)] >= 0

\* A call with logits and the threshold 0.5 has returned: a pixel whose logit is 0
\* is selected though the mask leaves it out, and a pixel whose logit is negative
\* is left out though the mask selects it.
C33_LogitsDecide ==
    /\ ev.type = "returned"
    /\ maskSource = "caller"
    /\ maskResponse.logits.present
    /\ maskOptions.threshold = 500
    /\ Len(maskResponse.logits.data) = Len(maskResponse.mask)
    /\ Len(selection.data) = Len(maskResponse.mask)
    /\ \E i \in 1..Len(selection.data) :
           /\ maskResponse.logits.data[i] = 0
           /\ maskResponse.mask[i] = 0
           /\ selection.data[i] = 255
    /\ \E i \in 1..Len(selection.data) :
           /\ maskResponse.logits.data[i] < 0
           /\ maskResponse.mask[i] = 255
           /\ selection.data[i] = 0

\* C35: when the pending mask of a segmentSingleView response has been applied,
\* the canvas passed to select.byMask has the size of the mask and its selected
\* pixels are exactly the pixels that are 255 in the mask shown by sam.maskReady,
\* the mask of the response.
C35_AppliedIsPreviewed ==
    (ev.type = "returned" /\ maskSource = "segmentSingleView") =>
        /\ selection.width = maskResponse.width
        /\ selection.height = maskResponse.height
        /\ \A i \in 1..Len(selection.data) :
               selection.data[i] = 255 <=> maskResponse.mask[i] = 255

\* C34: the service keeps a single provider: no step creates a provider while the
\* one it holds is ready or processing, no step replaces the provider it holds by
\* another one (a provider is given up only by disposing it), and at most one
\* provider.initialize() is in flight.
C34_SingleProvider ==
    [][ /\ Len(providers') > Len(providers) =>
               \/ provider = 0
               \/ providers[provider].state \notin {"ready", "processing"}
        /\ provider' # provider => (provider = 0 \/ provider' = 0)
        /\ Cardinality({p \in 1..Len(providers') :
                           providers'[p].state = "loading-models"}) <= 1
      ]_vars

\* C36: when sam.applyMask applies a pending mask after the panel fired
\* sam.maskSelected for candidate k of that mask's candidates, what is applied is
\* candidate k.
C36_PickedCandidateApplied ==
    [][ (ev'.type = "sam.applyMask" /\ heldResponse # NoHeld /\ lastPicked # -1) =>
            appliedLogits' = heldResponse.allMasks[lastPicked + 1]
      ]_vars

\* C37: startNewSession() leaves the engine's embeddings cache empty, and the
\* cache never holds embeddings for an imageId other than the current session's.
C37_CacheFollowsSession ==
    [][ /\ ev'.type = "startNewSession" => \A i \in ImageIds : imageEmbeddings'[i] = 0
        /\ \A i \in ImageIds : imageEmbeddings'[i] # 0 => i = currentImageId'
      ]_vars

\* C38: a segmentSingleView call that rejects changes no provider's stored
\* previous-mask logits, and changes the current imageId only by creating one,
\* when it is called with none; a sam.segment that fails, whether in the provider
\* or before it is called, leaves the pending mask as it was.
C38_FailedSegmentChangesNothing ==
    [][ \A i \in 1..Len(ops) :
            LET called == ops[i].pc = "awaitRender" /\ ops'[i].pc = "awaitProvider"
                thrown == ops[i].pc = "awaitProvider" /\ ops'[i].pc = "done"
                              /\ ops'[i].log[Len(ops'[i].log)] = "sam.segmentError"
                failed == ops[i].pc # "done" /\ ops'[i].pc = "done"
                              /\ ops'[i].log # <<>>
                              /\ ops'[i].log[Len(ops'[i].log)] = "sam.segmentError"
            IN  ops[i].kind = "segment" =>
                    /\ (called \/ thrown) =>
                           \A p \in 1..Len(providers) :
                               /\ providers'[p].previousMasks = providers[p].previousMasks
                               /\ \/ providers'[p].currentImageId = providers[p].currentImageId
                                  \/ /\ called
                                     /\ p = ops'[i].callee
                                     /\ providers[p].currentImageId = NoId
                                     /\ providers'[p].currentImageId # NoId
                    /\ failed => orchPendingMask' = orchPendingMask
      ]_vars

\* A segmentSingleView call has just rejected in a session that holds previous-mask
\* logits, while the mask of an earlier segment is pending.
C38_RejectedWithMaskPending ==
    /\ ev.type = "segmented"
    /\ ~ev.flag
    /\ orchPendingMask # 0
    /\ orchPendingMask # ev.op
    /\ ops[ev.op].imageId \in providers[ops[ev.op].callee].previousMasks
    /\ ops[ev.op].log[Len(ops[ev.op].log)] = "sam.segmentError"

\* C39: no side reads or transfers a buffer that is detached from it: postMessage
\* never throws; the buffers of a message on its way belong to its receiver and its
\* transfer list names no buffer twice; the previous mask of a request is not the
\* stored one, which stays attached to the main thread.
C39_NoUseAfterTransfer ==
    /\ misuse = {}
    /\ ~ev.thrown
    /\ \A i, j \in 1..Len(channel.transfer) :
           channel.transfer[i] = channel.transfer[j] => i = j
    /\ \A b \in BuffersOf(channel.buffers) : heap[b] = channel.to
    /\ storedMask # 0 =>
           /\ heap[storedMask] = "main"
           /\ storedMask \notin BuffersOf(channel.buffers)

\* A 'segment' request that carries a previous mask has been sent while the mask
\* of an earlier response with two candidates is stored.
C39_PreviousMaskTransferred ==
    /\ channel.to = "worker"
    /\ channel.type = "segment"
    /\ Len(channel.transfer) = 2
    /\ storedMask # 0
    /\ Len(heap) >= 2 + 2 * NumCandidates + 3

(***************************************************************************)
(* Progress of a segmentation: the provider and its workers as in Spec,    *)
(* with the worker's error event, under the scheduling the event loop, the *)
(* network and the worker give.                                            *)
(***************************************************************************)
\* worker.onerror: log, setState('error'), and reject the promise createWorker
\* has already resolved (no effect).  The pending requests are left alone.
WorkerError(w) ==
    /\ UNCHANGED dataVars
    /\ wstatus[w] = "alive"
    /\ state' = "error"
    /\ ev' = Ev("werror", "none", "none", "none")
    /\ UNCHANGED <<worker, currentProvider, pendingRequests, requestCounter,
                   abortController, calls, nCalls, workerVars, histVars>>

LiveNext ==
    \/ Next
    \/ \E w \in Workers : WorkerError(w)

\* The worker holds request id: in its queue or in a suspended handler.
WillAnswer(id) ==
    \E w \in Workers :
        /\ wstatus[w] = "alive"
        /\ \/ \E k \in 1..Len(inbox[w]) : inbox[w][k].id = id
           \/ \E k \in 1..Len(active[w]) : active[w][k].id = id

\* A pending request that no worker will answer: worker.terminate() discarded it.
Stranded == \E i \in 1..Len(pendingRequests) : ~WillAnswer(pendingRequests[i].id)

\* Microtasks run; a fetch settles (body, network error or AbortError); a live
\* worker dispatches the messages it holds and its handlers finish; abort() is
\* called while a request is pending that the worker will not answer.
LiveFairness ==
    /\ \A c \in Calls : WF_vars(Resume(c))
    /\ \A c \in Calls : WF_vars(LoadOk(c) \/ LoadFail(c) \/ LoadAborted(c))
    /\ \A w \in Workers : WF_vars(WorkerStart(w))
    /\ \A w \in Workers : WF_vars(WorkerRespondSync(w))
    /\ \A w \in Workers : WF_vars(\E i \in 1..MaxCalls, ok \in BOOLEAN : WorkerFinish(w, i, ok))
    /\ WF_vars(Stranded /\ Abort)

LiveSpec == Init /\ [][LiveNext]_vars /\ LiveFairness

\* handleSegmentRequest fires 'sam.segmentStart' and calls segmentSingleView (call
\* slot c holds the call while its promise is unsettled); the try/catch around the
\* await fires 'sam.segmentComplete' or 'sam.segmentError' when the promise settles.
SegmentStarted(c) == calls[c].op = "segment"

SegmentEnded(c) == c <= nCalls /\ calls[c] = FreeCall

====
